---- MODULE Spec2Model ----
(***************************************************************************)
(* Plant-disease retrieval and recommendation engine of AGRI_AI:           *)
(*   backend/app/services/plant_disease_rag.py  (PlantDiseaseRAG)          *)
(*   backend/app/routers/ai.py                  (diagnose_plant_disease)   *)
(*   backend/app/models/llm_ollama.py          (HybridLLM)                *)
(*   index.py                                   (the indexer script)       *)
(*   backend/app/services/user_service.py       (OTPService)               *)
(* Text is modelled as TLA+ strings, Python values as tagged records, and  *)
(* similarity scores as integers in thousandths.                           *)
(***************************************************************************)
EXTENDS Integers, Sequences, FiniteSets, TLC

(***************************************************************************)
(* Bounds of the model.                                                    *)
(***************************************************************************)
\* rows of the catalog that the artifacts on disk may hold
MaxRows == 3
\* largest top_k a caller of search_similar_diseases passes
MaxTopK == 4

(***************************************************************************)
(* Python str methods used by the service.                                 *)
(***************************************************************************)
\* s[i] (1-based), and "" past either end
Char(s, i) == IF i >= 1 /\ i <= Len(s) THEN SubSeq(s, i, i) ELSE ""

UpperChars == "ABCDEFGHIJKLMNOPQRSTUVWXYZ"
LowerChars == "abcdefghijklmnopqrstuvwxyz"

\* str.lower() of one character
LowerChar(c) ==
    IF \E i \in 1..26 : Char(UpperChars, i) = c
    THEN Char(LowerChars, CHOOSE i \in 1..26 : Char(UpperChars, i) = c)
    ELSE c

RECURSIVE LowerRange(_, _, _)
\* s[a..b].lower(), by halves
LowerRange(s, a, b) ==
    IF a > b THEN ""
    ELSE IF a = b THEN LowerChar(Char(s, a))
    ELSE LowerRange(s, a, (a + b) \div 2) \o LowerRange(s, ((a + b) \div 2) + 1, b)

\* str.lower()
Lower(s) == LowerRange(s, 1, Len(s))

\* sub in s
Contains(s, sub) ==
    \E i \in 1..(Len(s) - Len(sub) + 1) : SubSeq(s, i, i + Len(sub) - 1) = sub

\* s.startswith(p)
StartsWith(s, p) == Len(s) >= Len(p) /\ SubSeq(s, 1, Len(p)) = p

\* the characters str.strip() removes (those the sample texts can hold)
IsSpace(c) == c \in {" ", "\n", "\t"}

RECURSIVE LStripSet(_, _)
\* s.lstrip(chars): chars is a set of one-character strings
LStripSet(s, chars) ==
    IF s # "" /\ Char(s, 1) \in chars THEN LStripSet(SubSeq(s, 2, Len(s)), chars) ELSE s

RECURSIVE RStripSet(_, _)
RStripSet(s, chars) ==
    IF s # "" /\ Char(s, Len(s)) \in chars THEN RStripSet(SubSeq(s, 1, Len(s) - 1), chars) ELSE s

\* s.strip()
Strip(s) == RStripSet(LStripSet(s, {" ", "\n", "\t"}), {" ", "\n", "\t"})

RECURSIVE SplitFrom(_, _, _)
\* s.split(sep) for a one-character sep: start is where the current piece begins
SplitFrom(s, sep, start) ==
    IF \E i \in start..Len(s) : Char(s, i) = sep
    THEN LET i == CHOOSE i \in start..Len(s) :
                     /\ Char(s, i) = sep
                     /\ \A j \in start..(i - 1) : Char(s, j) # sep
         IN  <<SubSeq(s, start, i - 1)>> \o SplitFrom(s, sep, i + 1)
    ELSE <<SubSeq(s, start, Len(s))>>

Split(s, sep) == SplitFrom(s, sep, 1)

(***************************************************************************)
(* Python values: str, list, dict, None, bool.  A dict is a function from *)
(* its keys; "k in d" is k \in DOMAIN d.                                   *)
(***************************************************************************)
PyStr(s)   == [t |-> "str", s |-> s]
PyList(l)  == [t |-> "list", l |-> l]
PyDict(d)  == [t |-> "dict", d |-> d]
PyNone     == [t |-> "none"]

EmptyDict == [k \in {} |-> PyNone]

\* d[k] = v
DictSet(d, k, v) == [x \in DOMAIN d \cup {k} |-> IF x = k THEN v ELSE d[x]]

\* bool(v) of a Python value, as "if not v" reads it
Truthy(v) ==
    CASE v.t = "str"  -> v.s # ""
      [] v.t = "list" -> v.l # <<>>
      [] v.t = "dict" -> DOMAIN v.d # {}
      [] OTHER        -> FALSE

Digits == <<"0", "1", "2", "3", "4", "5", "6", "7", "8", "9">>

RECURSIVE NatToStr(_)
\* str(n) for n >= 0
NatToStr(n) == IF n < 10 THEN Digits[n + 1] ELSE NatToStr(n \div 10) \o Digits[(n % 10) + 1]

\* what a call hands back: a value, or an exception that leaves the call
Return(v) == [kind |-> "return", value |-> v]
Raise(e)  == [kind |-> "raise", error |-> e]

(***************************************************************************)
(* json.loads, for the JSON the sample responses hold: objects, arrays,    *)
(* strings without escapes, integers, true, false and null.                *)
(***************************************************************************)
PyInt(n)  == [t |-> "int", n |-> n]
PyBool(b) == [t |-> "bool", b |-> b]

ParseOk(v, next) == [ok |-> TRUE, val |-> v, next |-> next]
ParseFail        == [ok |-> FALSE]

RECURSIVE SkipWs(_, _)
\* the first position at or after i that holds no JSON whitespace
SkipWs(s, i) == IF Char(s, i) \in {" ", "\n", "\t"} THEN SkipWs(s, i + 1) ELSE i

RECURSIVE StringEnd(_, _)
\* the position of the quote that closes a string whose text starts at i; 0 when a
\* control character, an escape or the end of the text comes first
StringEnd(s, i) ==
    CASE Char(s, i) = "\""                 -> i
      [] Char(s, i) \in {"", "\n", "\t", "\\"} -> 0
      [] OTHER                             -> StringEnd(s, i + 1)

ParseString(s, i) ==
    LET j == StringEnd(s, i + 1)
    IN  IF j = 0 THEN ParseFail ELSE ParseOk(PyStr(SubSeq(s, i + 1, j - 1)), j + 1)

IsDigit(c) == c \in {"0", "1", "2", "3", "4", "5", "6", "7", "8", "9"}

DigitValue(c) == CHOOSE n \in 0..9 : Digits[n + 1] = c

RECURSIVE ParseDigits(_, _, _)
ParseDigits(s, i, acc) ==
    IF IsDigit(Char(s, i)) THEN ParseDigits(s, i + 1, acc * 10 + DigitValue(Char(s, i)))
    ELSE ParseOk(PyInt(acc), i)

ParseLiteral(s, i, word, v) ==
    IF SubSeq(s, i, i + Len(word) - 1) = word THEN ParseOk(v, i + Len(word)) ELSE ParseFail

RECURSIVE ParseValue(_, _)
RECURSIVE ParseArrayRest(_, _, _)
RECURSIVE ParseObjectRest(_, _, _)

ParseArray(s, i) ==
    LET j == SkipWs(s, i + 1)
    IN  IF Char(s, j) = "]" THEN ParseOk(PyList(<<>>), j + 1) ELSE ParseArrayRest(s, j, <<>>)

ParseObject(s, i) ==
    LET j == SkipWs(s, i + 1)
    IN  IF Char(s, j) = "}" THEN ParseOk(PyDict(EmptyDict), j + 1)
        ELSE ParseObjectRest(s, j, EmptyDict)

ParseValue(s, i) ==
    LET c == Char(s, i)
    IN  CASE c = "\""   -> ParseString(s, i)
          [] c = "["    -> ParseArray(s, i)
          [] c = "{"    -> ParseObject(s, i)
          [] c = "n"    -> ParseLiteral(s, i, "null", PyNone)
          [] c = "t"    -> ParseLiteral(s, i, "true", PyBool(TRUE))
          [] c = "f"    -> ParseLiteral(s, i, "false", PyBool(FALSE))
          [] IsDigit(c) -> ParseDigits(s, i, 0)
          [] OTHER      -> ParseFail

\* the elements of an array from position i on, those before it in acc
ParseArrayRest(s, i, acc) ==
    LET v == ParseValue(s, i)
    IN  IF ~v.ok THEN ParseFail
        ELSE LET j == SkipWs(s, v.next)
             IN  CASE Char(s, j) = "," -> ParseArrayRest(s, SkipWs(s, j + 1), Append(acc, v.val))
                   [] Char(s, j) = "]" -> ParseOk(PyList(Append(acc, v.val)), j + 1)
                   [] OTHER            -> ParseFail

\* the members of an object from position i on, those before it in acc; a repeated
\* key keeps its last value
ParseObjectRest(s, i, acc) ==
    IF Char(s, i) # "\"" THEN ParseFail
    ELSE LET k == ParseString(s, i)
         IN  IF ~k.ok THEN ParseFail
             ELSE LET c == SkipWs(s, k.next)
                  IN  IF Char(s, c) # ":" THEN ParseFail
                      ELSE LET v == ParseValue(s, SkipWs(s, c + 1))
                           IN  IF ~v.ok THEN ParseFail
                               ELSE LET j   == SkipWs(s, v.next)
                                        acc2 == DictSet(acc, k.val.s, v.val)
                                    IN  CASE Char(s, j) = "," ->
                                                 ParseObjectRest(s, SkipWs(s, j + 1), acc2)
                                          [] Char(s, j) = "}" -> ParseOk(PyDict(acc2), j + 1)
                                          [] OTHER            -> ParseFail

\* json.loads(s): the value, or a JSONDecodeError
json_loads(s) ==
    LET v == ParseValue(s, SkipWs(s, 1))
    IN  IF v.ok /\ SkipWs(s, v.next) = Len(s) + 1 THEN Return(v.val)
        ELSE Raise("JSONDecodeError")

\* re.search(r'\{.*\}', s, re.DOTALL): from the first "{" to the last "}" after it
\* (".*" is greedy); None when no "}" follows a "{"
json_match(s) ==
    LET opens  == {i \in 1..Len(s) : Char(s, i) = "{"}
        closes == {j \in 1..Len(s) : Char(s, j) = "}"}
    IN  IF \E i \in opens, j \in closes : i < j
        THEN LET first == CHOOSE i \in opens : \A o \in opens : i <= o
                 lst   == CHOOSE j \in closes : \A o \in closes : o <= j
             IN  PyStr(SubSeq(s, first, lst))
        ELSE PyNone

VARIABLES
    index,       \* self.index: None, or the loaded FAISS index with its vectors xb
    metadata,    \* self.metadata: the rows of the metadata CSV (a list of dicts of strings)
    model,       \* self.model: None or the loaded embedding backend
    index_type,  \* self.index_type
    llm,         \* self.llm: None or the HybridLLM
    last,        \* the last completed call: its operation, arguments and outcome
    DATA_DIR,    \* index.py: the class folders of the dataset directory and their entries
    META_CSV,    \* index.py: the metadata file on disk
    FAISS_FILE,  \* index.py: the index file on disk
    indexer,     \* index.py: how far the run of the script has come, its rows and what failed
    call,        \* the generator call under way inside get_treatment_recommendations
    otps,        \* db.otps: the documents of the OTP collection
    requests,    \* the calls made on the OTPService, in the order they were made
    now          \* datetime.utcnow(), in minutes

vars == <<index, metadata, model, index_type, llm, last, DATA_DIR, META_CSV, FAISS_FILE, indexer, call, otps, requests, now>>
auth == <<otps, requests, now>>
service == <<index, metadata, model, index_type, llm>>
indexing == <<DATA_DIR, META_CSV, FAISS_FILE, indexer>>

(***************************************************************************)
(* The catalog the indexer wrote (index.py build_docs): one row per image, *)
(* every column a string once it is read back from the CSV.                *)
(***************************************************************************)
Classes == <<
    [crop |-> "Tomato", condition |-> "Leaf Mold",    is_healthy |-> "False"],
    [crop |-> "Tomato", condition |-> "healthy",      is_healthy |-> "True"],
    [crop |-> "Potato", condition |-> "Early blight", is_healthy |-> "False"],
    [crop |-> "Rice",   condition |-> "Brown spot",   is_healthy |-> "False"] >>

\* the row index.py writes at offset i (0-based) of the metadata table
CatalogRow(i) ==
    LET c          == Classes[(i % Len(Classes)) + 1]
        class_name == c.crop \o " - " \o c.condition
    IN  [id         |-> NatToStr(i),
         class_name |-> class_name,
         crop       |-> c.crop,
         condition  |-> c.condition,
         is_healthy |-> c.is_healthy,
         image_path |-> "Plant_Disease_Dataset/" \o NatToStr(i) \o ".jpg",
         text       |-> "Crop: " \o c.crop \o ". Condition: " \o c.condition
                        \o ". This is a leaf image labeled '" \o class_name
                        \o "'. Healthy: " \o (IF c.is_healthy = "True" THEN "yes" ELSE "no")
                        \o "."]

(***************************************************************************)
(* The embedding backend and the FAISS inner-product index.  Vectors are   *)
(* pairs of integers of norm 1000; a score is an inner product in          *)
(* thousandths.                                                            *)
(***************************************************************************)
\* model.encode([text], normalize_embeddings=True): a stand-in embedder that
\* places lexically matching texts close together
encode(text) ==
    LET low == Lower(text)
    IN  CASE Contains(low, "mold")                                   -> <<0, 1000>>
          [] Contains(low, "blight")                                 -> <<707, 707>>
          [] Contains(low, "healthy: yes") \/ Contains(low, "green") -> <<1000, 0>>
          [] OTHER                                                   -> <<600, 800>>

InnerProduct(u, v) == (u[1] * v[1] + u[2] * v[2]) \div 1000

\* the score FAISS reports in a slot it could not fill (-FLT_MAX), with row -1
NegFltMax == -3402823

\* the vector index.py stores at offset i of the index
CatalogVector(i) == encode(CatalogRow(i).text)

\* faiss.IndexFlatIP.search reports hits by descending score and documents no order
\* among hits of equal score: a build of the library reports the lower row first
\* or the higher row first
TieOrders == {"low", "high"}

\* the row of xb not in taken that search reports next
BestRow(xb, q, taken, ties) ==
    CHOOSE r \in (0..(Len(xb) - 1)) \ taken :
        \A o \in (0..(Len(xb) - 1)) \ taken :
            \/ InnerProduct(q, xb[r + 1]) > InnerProduct(q, xb[o + 1])
            \/ /\ InnerProduct(q, xb[r + 1]) = InnerProduct(q, xb[o + 1])
               /\ IF ties = "low" THEN r <= o ELSE r >= o

RECURSIVE IndexSearchFrom(_, _, _, _, _)
IndexSearchFrom(xb, q, k, taken, ties) ==
    IF k = 0 THEN <<>>
    ELSE IF Cardinality(taken) >= Len(xb)
         THEN <<[score |-> NegFltMax, idx |-> -1]>>
              \o IndexSearchFrom(xb, q, k - 1, taken, ties)
         ELSE LET r == BestRow(xb, q, taken, ties)
              IN  <<[score |-> InnerProduct(q, xb[r + 1]), idx |-> r]>>
                  \o IndexSearchFrom(xb, q, k - 1, taken \cup {r}, ties)

\* a loaded faiss.IndexFlatIP holding the vectors xb
FaissIndex(xb, ties) == [t |-> "IndexFlatIP", xb |-> xb, ties |-> ties]

\* a search that reports every row of the index, whatever k
IndexSearch_AllRows(idx, q, k) == IndexSearchFrom(idx.xb, q, Len(idx.xb), {}, idx.ties)

\* idx.search(query_embedding, top_k): exactly top_k slots, padded with row -1
IndexSearch(idx, q, k) == IndexSearchFrom(idx.xb, q, k, {}, idx.ties)

(***************************************************************************)
(* PlantDiseaseRAG: retrieval.                                             *)
(***************************************************************************)
\* rows[idx] as Python indexes a list: a negative idx counts from the end
PyIndex(rows, idx) == IF idx >= 0 THEN rows[idx + 1] ELSE rows[Len(rows) + idx + 1]

\* variant: the flag is read back with a case-sensitive comparison
SearchResult_CaseSensitive(rows, slot) ==
    LET row == PyIndex(rows, slot.idx)
    IN  [score       |-> slot.score,
         crop        |-> row.crop,
         condition   |-> row.condition,
         is_healthy  |-> (row.is_healthy = "true"),
         class_name  |-> row.class_name,
         image_path  |-> row.image_path,
         text        |-> row.text,
         metadata_id |-> slot.idx]

\* the result dict built from one slot (score, idx) of the index's answer
SearchResult(rows, slot) ==
    LET row == PyIndex(rows, slot.idx)
    IN  [score       |-> slot.score,
         crop        |-> row.crop,
         condition   |-> row.condition,
         is_healthy  |-> (Lower(row.is_healthy) = "true"),
         class_name  |-> row.class_name,
         image_path  |-> row.image_path,
         text        |-> row.text,
         metadata_id |-> slot.idx]

RECURSIVE CompileResults(_, _)
\* the loop over zip(scores[0], indices[0]): a slot is kept when idx < len(metadata)
CompileResults(rows, slots) ==
    IF slots = <<>> THEN <<>>
    ELSE (IF Head(slots).idx < Len(rows) THEN <<SearchResult(rows, Head(slots))>> ELSE <<>>)
         \o CompileResults(rows, Tail(slots))

\* a search whose guard forgets the embedding backend
search_similar_diseases_NoModelGuard(idx, rows, mdl, query, top_k, fault) ==
    IF idx = PyNone \/ rows = <<>>
    THEN Return(<<>>)
    ELSE IF fault # "none" \/ top_k <= 0 THEN Return(<<>>)
    ELSE Return(CompileResults(rows, IndexSearch(idx, encode(query), top_k)))

\* search_similar_diseases(query, top_k) on a service (idx, rows, mdl); fault names
\* the library call that throws during this request: "none", "encode" or "search"
search_similar_diseases(idx, rows, mdl, query, top_k, fault) ==
    IF idx = PyNone \/ mdl = PyNone \/ rows = <<>>
    THEN Return(<<>>)
    ELSE IF fault = "encode" THEN Return(<<>>)
    \* faiss rejects k <= 0 with an AssertionError, caught like any other
    ELSE IF fault = "search" \/ top_k <= 0 THEN Return(<<>>)
    ELSE Return(CompileResults(rows, IndexSearch(idx, encode(query), top_k)))

\* is_service_ready()
is_service_ready(idx, rows, mdl) == idx # PyNone /\ mdl # PyNone /\ Len(rows) > 0

(***************************************************************************)
(* PlantDiseaseRAG: parsing the generator's text.                          *)
(***************************************************************************)
\* any(keyword in line.lower() for keyword in kws)
AnyKeyword(line, kws) == LET low == Lower(line) IN \E kw \in kws : Contains(low, kw)

\* items[:n]
Take(items, n) == SubSeq(items, 1, IF Len(items) < n THEN Len(items) ELSE n)

\* the slice bound of recommendations[:6] and preventive_measures[:6]
MaxListItems == 6

\* the bullet character U+2022 of line.startswith, held as one character that no text
\* uses for anything else
Bullet == "@"

RECURSIVE ScanLines(_, _)
\* the loop over the lines of _structure_text_response; st holds its local variables
ScanLines(lines, st) ==
    IF lines = <<>> THEN st
    ELSE LET line == Strip(Head(lines))
             rest == Tail(lines)
         IN  IF line = "" THEN ScanLines(rest, st)
             ELSE IF AnyKeyword(line, {"treatment", "recommend", "apply"})
                  THEN ScanLines(rest, [st EXCEPT !.current_section = "recommendations"])
             ELSE IF AnyKeyword(line, {"prevent", "avoid", "maintain"})
                  THEN ScanLines(rest, [st EXCEPT !.current_section = "preventive_measures"])
             ELSE IF AnyKeyword(line, {"fertilizer", "nutrient", "npk"})
                  THEN ScanLines(rest, [st EXCEPT !.fertilizer_advice = line,
                                                  !.current_section = "None"])
             ELSE IF AnyKeyword(line, {"urgent", "immediate", "critical"})
                  THEN ScanLines(rest, [st EXCEPT !.urgency = "high",
                                                  !.current_section = "None"])
             ELSE IF StartsWith(line, "-") \/ StartsWith(line, Bullet) \/ StartsWith(line, "*")
                  THEN LET clean_line == Strip(LStripSet(line, {"-", " ", Bullet, "*"}))
                       IN  IF st.current_section = "recommendations"
                           THEN ScanLines(rest, [st EXCEPT !.recommendations =
                                                     Append(@, PyStr(clean_line))])
                           ELSE IF st.current_section = "preventive_measures"
                           THEN ScanLines(rest, [st EXCEPT !.preventive_measures =
                                                     Append(@, PyStr(clean_line))])
                           ELSE ScanLines(rest, st)
             ELSE ScanLines(rest, st)

\* _structure_text_response(text_response)
\* variant: the line-based result keeps the response text stripped
structure_text_response_Stripped(text_response) ==
    LET st == ScanLines(Split(text_response, "\n"),
                        [recommendations     |-> <<>>,
                         preventive_measures |-> <<>>,
                         fertilizer_advice   |-> "Apply balanced fertilizer as recommended",
                         urgency             |-> "medium",
                         current_section     |-> "None"])
        recommendations ==
            IF st.recommendations = <<>>
            THEN <<PyStr("Follow agricultural best practices for the identified condition")>>
            ELSE st.recommendations
        preventive_measures ==
            IF st.preventive_measures = <<>>
            THEN <<PyStr("Maintain good plant hygiene"), PyStr("Monitor plants regularly")>>
            ELSE st.preventive_measures
    IN  [primary_diagnosis   |-> PyStr("AI analysis completed"),
         confidence          |-> PyStr("medium"),
         recommendations     |-> PyList(Take(recommendations, MaxListItems)),
         preventive_measures |-> PyList(Take(preventive_measures, MaxListItems)),
         fertilizer_advice   |-> PyStr(st.fertilizer_advice),
         urgency             |-> PyStr(st.urgency),
         llm_analysis        |-> PyStr(Strip(text_response))]

\* _structure_text_response(text_response)
\* variant: an empty preventive_measures list is seeded with one sentence
structure_text_response_OneSentence(text_response) ==
    LET st == ScanLines(Split(text_response, "\n"),
                        [recommendations     |-> <<>>,
                         preventive_measures |-> <<>>,
                         fertilizer_advice   |-> "Apply balanced fertilizer as recommended",
                         urgency             |-> "medium",
                         current_section     |-> "None"])
        recommendations ==
            IF st.recommendations = <<>>
            THEN <<PyStr("Follow agricultural best practices for the identified condition")>>
            ELSE st.recommendations
        preventive_measures ==
            IF st.preventive_measures = <<>>
            THEN <<PyStr("Maintain good plant hygiene")>>
            ELSE st.preventive_measures
    IN  [primary_diagnosis   |-> PyStr("AI analysis completed"),
         confidence          |-> PyStr("medium"),
         recommendations     |-> PyList(Take(recommendations, MaxListItems)),
         preventive_measures |-> PyList(Take(preventive_measures, MaxListItems)),
         fertilizer_advice   |-> PyStr(st.fertilizer_advice),
         urgency             |-> PyStr(st.urgency),
         llm_analysis        |-> PyStr(text_response)]

\* _structure_text_response(text_response)
structure_text_response(text_response) ==
    LET st == ScanLines(Split(text_response, "\n"),
                        [recommendations     |-> <<>>,
                         preventive_measures |-> <<>>,
                         fertilizer_advice   |-> "Apply balanced fertilizer as recommended",
                         urgency             |-> "medium",
                         current_section     |-> "None"])
        recommendations ==
            IF st.recommendations = <<>>
            THEN <<PyStr("Follow agricultural best practices for the identified condition")>>
            ELSE st.recommendations
        preventive_measures ==
            IF st.preventive_measures = <<>>
            THEN <<PyStr("Maintain good plant hygiene"), PyStr("Monitor plants regularly")>>
            ELSE st.preventive_measures
    IN  [primary_diagnosis   |-> PyStr("AI analysis completed"),
         confidence          |-> PyStr("medium"),
         recommendations     |-> PyList(Take(recommendations, MaxListItems)),
         preventive_measures |-> PyList(Take(preventive_measures, MaxListItems)),
         fertilizer_advice   |-> PyStr(st.fertilizer_advice),
         urgency             |-> PyStr(st.urgency),
         llm_analysis        |-> PyStr(text_response)]

required_fields == <<"primary_diagnosis", "confidence", "recommendations",
                     "preventive_measures", "fertilizer_advice">>

RECURSIVE FillRequired(_, _)
\* the loop over required_fields: a field the dict lacks gets the placeholder string
FillRequired(d, fields) ==
    IF fields = <<>> THEN d
    ELSE FillRequired(IF Head(fields) \notin DOMAIN d
                      THEN DictSet(d, Head(fields), PyStr("Not specified in LLM response"))
                      ELSE d,
                      Tail(fields))

\* d[k] = v when k is not in d
SetDefault(d, k, v) == IF k \notin DOMAIN d THEN DictSet(d, k, v) ELSE d

\* a parser that forgets the default of urgency
parse_llm_recommendations_NoUrgencyDefault(llm_response) ==
    LET m == json_match(llm_response)
    IN  IF m # PyNone
        THEN LET loaded == json_loads(m.s)
             IN  IF loaded.kind = "raise"
                 THEN structure_text_response(llm_response)
                 ELSE SetDefault(FillRequired(loaded.value.d, required_fields),
                                 "llm_analysis", PyStr(llm_response))
        ELSE structure_text_response(llm_response)

\* _parse_llm_recommendations(llm_response)
parse_llm_recommendations(llm_response) ==
    LET m == json_match(llm_response)
    IN  IF m # PyNone
        THEN LET loaded == json_loads(m.s)
             IN  IF loaded.kind = "raise"
                 THEN structure_text_response(llm_response)
                 ELSE SetDefault(SetDefault(FillRequired(loaded.value.d, required_fields),
                                            "urgency", PyStr("medium")),
                                 "llm_analysis", PyStr(llm_response))
        ELSE structure_text_response(llm_response)

(***************************************************************************)
(* PlantDiseaseRAG: the recommendation synthesizer.                        *)
(***************************************************************************)
\* f"{score:.2f}" of a score in thousandths: rounded to hundredths, an exact
\* half to the even digit, two digits after the point
Format2(score) ==
    IF score = NegFltMax THEN "-340282346638528859811704183484516925440.00"
    ELSE LET a == IF score < 0 THEN -score ELSE score
             q == a \div 10
             r == a % 10
             h == IF r > 5 \/ (r = 5 /\ q % 2 = 1) THEN q + 1 ELSE q
         IN  (IF score < 0 THEN "-" ELSE "") \o NatToStr(h \div 100) \o "."
             \o Digits[((h \div 10) % 10) + 1] \o Digits[(h % 10) + 1]

\* the score above which the treatment prompt says "high" (0.7)
ConfidenceThreshold == 700

\* the number of matches quoted as similar cases: disease_matches[:3]
MaxSimilarCases == 3

RECURSIVE Join(_, _)
\* sep.join(parts)
Join(parts, sep) ==
    IF parts = <<>> THEN ""
    ELSE IF Len(parts) = 1 THEN parts[1]
    ELSE parts[1] \o sep \o Join(Tail(parts), sep)

\* x or default, for x a str or None
StrOr(x, default) == IF Truthy(x) THEN x.s ELSE default

\* similar cases without the [:3] slice
similar_cases_Unsliced(disease_matches) ==
    PyList([i \in 1..Len(disease_matches) |->
               PyDict([crop       |-> PyStr(disease_matches[i].crop),
                       condition  |-> PyStr(disease_matches[i].condition),
                       similarity |-> PyStr(Format2(disease_matches[i].score))])])

\* the list comprehension over disease_matches[:3] that builds similar_cases
similar_cases(disease_matches) ==
    LET top == Take(disease_matches, MaxSimilarCases)
    IN  PyList([i \in 1..Len(top) |->
                   PyDict([crop       |-> PyStr(top[i].crop),
                           condition  |-> PyStr(top[i].condition),
                           similarity |-> PyStr(Format2(top[i].score))])])

\* a fallback that names the crop of the first match and ignores the crop hint
get_fallback_recommendations_TopCrop(crop, condition, disease_matches) ==
    [primary_diagnosis   |-> PyStr(disease_matches[1].crop \o " - " \o condition),
     confidence          |-> PyStr("medium"),
     similar_cases       |-> PyList(<<>>),
     recommendations     |-> PyList(<<PyStr("Remove affected plant parts")>>),
     preventive_measures |-> PyList(<<PyStr("Regular crop monitoring")>>),
     fertilizer_advice   |-> PyStr("Use balanced NPK fertilizer"),
     urgency             |-> PyStr("medium"),
     llm_analysis        |-> PyStr("LLM analysis not available - using fallback recommendations")]

\* _get_fallback_recommendations(crop, condition, disease_matches)
get_fallback_recommendations(crop, condition, disease_matches) ==
    [primary_diagnosis   |-> PyStr(crop \o " - " \o condition),
     confidence          |-> PyStr("medium"),
     similar_cases       |-> similar_cases(disease_matches),
     recommendations     |-> PyList(<<PyStr("Remove affected plant parts"),
                                      PyStr("Apply appropriate treatment based on disease type"),
                                      PyStr("Improve environmental conditions"),
                                      PyStr("Monitor plant closely for changes")>>),
     preventive_measures |-> PyList(<<PyStr("Ensure proper plant spacing"),
                                      PyStr("Maintain good air circulation"),
                                      PyStr("Avoid overhead watering"),
                                      PyStr("Practice crop rotation")>>),
     fertilizer_advice   |-> PyStr("Apply balanced fertilizer suitable for " \o crop),
     urgency             |-> PyStr("medium"),
     llm_analysis        |-> PyStr("LLM analysis not available - using fallback recommendations")]

\* a hard-coded record that claims medium confidence
hard_fallback_Medium ==
    [primary_diagnosis   |-> PyStr("Unable to identify specific disease"),
     confidence          |-> PyStr("medium"),
     recommendations     |-> PyList(<<PyStr("Consult with a local agricultural expert")>>),
     preventive_measures |-> PyList(<<PyStr("Maintain good crop hygiene"),
                                      PyStr("Ensure proper spacing")>>),
     fertilizer_advice   |-> PyStr("Use balanced NPK fertilizer as per soil test"),
     urgency             |-> PyStr("medium"),
     llm_analysis        |-> PyStr("LLM analysis not available")]

\* the record returned when there are no matches and no generator answer
hard_fallback ==
    [primary_diagnosis   |-> PyStr("Unable to identify specific disease"),
     confidence          |-> PyStr("low"),
     recommendations     |-> PyList(<<PyStr("Consult with a local agricultural expert")>>),
     preventive_measures |-> PyList(<<PyStr("Maintain good crop hygiene"),
                                      PyStr("Ensure proper spacing")>>),
     fertilizer_advice   |-> PyStr("Use balanced NPK fertilizer as per soil test"),
     urgency             |-> PyStr("medium"),
     llm_analysis        |-> PyStr("LLM analysis not available")]

\* the prompt of the no-match branch (lines without their indentation)
fallback_prompt(crop_type) ==
    Join(<<"No specific disease matches found for the plant image analysis.",
           "Crop type: " \o StrOr(crop_type, "Unknown"),
           "",
           "Please provide general plant health recommendations in JSON format:",
           "{",
           "\"primary_diagnosis\": \"Unable to identify specific disease\",",
           "\"confidence\": \"low\",",
           "\"recommendations\": [\"list of 3-5 treatment steps\"],",
           "\"preventive_measures\": [\"list of 3-5 prevention strategies\"],",
           "\"fertilizer_advice\": \"specific fertilizer recommendation\",",
           "\"urgency\": \"low/medium/high\"",
           "}">>, "\n")

\* similar_cases_context: one sentence for each of the first three matches
similar_cases_context(disease_matches) ==
    LET top == Take(disease_matches, MaxSimilarCases)
    IN  [i \in 1..Len(top) |->
            "Case " \o NatToStr(i) \o ": " \o top[i].crop \o " with " \o top[i].condition
            \o " (similarity: " \o Format2(top[i].score) \o ")"]

\* a threshold that counts 0.7 itself as high
prompt_confidence_AtLeast(primary_match) ==
    IF primary_match.score >= ConfidenceThreshold THEN "high" ELSE "medium"

\* the confidence the treatment prompt states for the top match
prompt_confidence(primary_match) ==
    IF primary_match.score > ConfidenceThreshold THEN "high" ELSE "medium"

\* llm_prompt when the top match is healthy (lines without their indentation)
healthy_prompt(crop, disease_matches) ==
    Join(<<"Analysis shows a healthy " \o crop \o " leaf with high confidence.",
           "Similar healthy cases found:",
           Join(similar_cases_context(disease_matches), "\n"),
           "",
           "Please provide maintenance recommendations in JSON format:",
           "{",
           "\"primary_diagnosis\": \"Healthy " \o crop \o " leaf\",",
           "\"confidence\": \"high\",",
           "\"recommendations\": [\"list of 3-5 maintenance practices\"],",
           "\"preventive_measures\": [\"list of 3-5 disease prevention strategies\"],",
           "\"fertilizer_advice\": \"specific fertilizer recommendation for healthy "
               \o crop \o "\",",
           "\"urgency\": \"low\"",
           "}">>, "\n")

\* llm_prompt when the top match is a disease (lines without their indentation)
treatment_prompt(crop, condition, disease_matches) ==
    Join(<<"Plant disease diagnosis based on image analysis and database matching:",
           "",
           "Primary diagnosis: " \o crop \o " - " \o condition,
           "Confidence level: " \o prompt_confidence(disease_matches[1]),
           "",
           "Similar cases found in database:",
           Join(similar_cases_context(disease_matches), "\n"),
           "",
           "Please provide comprehensive treatment recommendations in JSON format:",
           "{",
           "\"primary_diagnosis\": \"" \o crop \o " - " \o condition \o "\",",
           "\"confidence\": \"" \o prompt_confidence(disease_matches[1]) \o "\",",
           "\"recommendations\": [\"list of 4-6 specific treatment steps\"],",
           "\"preventive_measures\": [\"list of 4-6 prevention strategies\"],",
           "\"fertilizer_advice\": \"specific fertilizer recommendation for this condition\",",
           "\"urgency\": \"low/medium/high based on disease severity\"",
           "}",
           "",
           "Consider:",
           "- Immediate treatment actions",
           "- Chemical/organic treatment options",
           "- Environmental management",
           "- Timing of treatments",
           "- Safety precautions",
           "- Follow-up monitoring">>, "\n")

\* texts a generator may answer with
WellFormed ==
    "{\"primary_diagnosis\": \"Tomato - Leaf Mold\", \"confidence\": \"high\", "
    \o "\"recommendations\": [\"Remove infected leaves\", \"Spray fungicide\", \"Improve airflow\"], "
    \o "\"preventive_measures\": [\"Rotate crops\", \"Water at soil level\", \"Space plants\"], "
    \o "\"fertilizer_advice\": \"Use potash\", \"urgency\": \"high\"}"

EmbeddedInProse ==
    "Here is my advice:\n{\"primary_diagnosis\": \"Leaf Mold\", \"confidence\": \"low\",\n"
    \o " \"recommendations\": [\"Prune\"], \"preventive_measures\": [\"Ventilate\"],\n"
    \o " \"fertilizer_advice\": \"None needed\", \"similar_cases\": [\"invented\"],\n"
    \o " \"model_used\": \"self\", \"llm_analysis\": \"short\"}\nGood luck."

EmptyFields ==
    "{\"primary_diagnosis\": \"\", \"confidence\": \"\", \"recommendations\": [], "
    \o "\"preventive_measures\": [], \"fertilizer_advice\": \"\", \"urgency\": \"\"}"

MissingFields == "{\"primary_diagnosis\": \"Leaf Mold\"}"

EmptyObject == "{}"

OtherTypes ==
    "{\"primary_diagnosis\": null, \"severity\": 5, \"recommendations\": \"Prune\", "
    \o "\"preventive_measures\": [\"Ventilate\"], \"fertilizer_advice\": \"Use potash\"}"

TwoObjects ==
    "{\"primary_diagnosis\": \"Leaf Mold\", \"confidence\": \"high\"}\n"
    \o "Note: {\"source\": \"guide\"}"

StrayBrace ==
    "{\"primary_diagnosis\": \"Leaf Mold\", \"urgency\": \"low\"}\nEnd of answer }"

TrailingComma == "{\"primary_diagnosis\": \"Leaf Mold\",}"

ProseWithBullets ==
    "Treatment plan:\n- Remove infected leaves\n* Apply copper spray\n- Spray weekly\n"
    \o "Prevention:\n  - Rotate crops\n- Avoid wet leaves\n- Clean tools\n"
    \o "Use NPK fertilizer monthly\n- Water early\nThis is URGENT\n- Call an expert\n"

ManyBullets ==
    "Recommended steps:\n- one\n- two\n- three\n- four\n- five\n- six\n- seven\n"
    \o "To prevent this:\n- a\n- b"

\* lines led by the bullet character, written as Bullet
DotBullets == "Recommended steps:\n@ Prune lower leaves\n@@ Spray neem oil\n  @ - Stake the plant\n"

KeywordClash ==
    "Prevention:\n- Rotate crops\nApply NPK fertilizer monthly\n- Water early\n"
    \o "Immediate treatment is critical\n- Call an expert\nAdd nutrient mix now, it is urgent\n"

PlainProse == "The plant looks stressed. Keep watching it."

EmptyText == ""

Responses == {WellFormed, EmbeddedInProse, EmptyFields, MissingFields, EmptyObject,
              OtherTypes, TwoObjects, StrayBrace, TrailingComma, ProseWithBullets,
              ManyBullets, DotBullets, KeywordClash, PlainProse, EmptyText}

\* _parse_llm_recommendations of every text in Responses, worked out once
ParsedResponses == {[text |-> t, parsed |-> parse_llm_recommendations(t)] : t \in Responses}

\* self._parse_llm_recommendations(text) for a text of Responses
ParsedResponse(text) == (CHOOSE p \in ParsedResponses : p.text = text).parsed

\* d.get(k, default) of a dict held as a record
Get(d, k, default) == IF k \in DOMAIN d THEN d[k] ELSE default

\* a try block that parses the response text without looking at success
chat_recommendations_IgnoresSuccess(chat_outcome) ==
    IF chat_outcome.kind = "return" /\ "response" \in DOMAIN chat_outcome.value
    THEN Return(parse_llm_recommendations(chat_outcome.value.response))
    ELSE Raise("failed")

\* what the try block around llm_model.chat(...) yields: the parsed record when the
\* call returned success with a response text, "failed" when it raised, returned
\* success false, or returned no usable response (an exception inside the try)
chat_recommendations(chat_outcome) ==
    IF /\ chat_outcome.kind = "return"
       /\ Get(chat_outcome.value, "success", FALSE)
       /\ "response" \in DOMAIN chat_outcome.value
    THEN Return(ParsedResponse(chat_outcome.value.response))
    ELSE Raise("failed")

\* get_treatment_recommendations(disease_matches, crop_type, user_id) on a service
\* whose self.llm is llm_model; chat_outcome is what llm_model.chat does when called.
\* Yields the outcome of the call and the prompt sent to the generator (None if none)
get_treatment_recommendations(llm_model, disease_matches, crop_type, user_id, chat_outcome) ==
    IF disease_matches = <<>>
    THEN IF llm_model # PyNone
         THEN LET parsed == chat_recommendations(chat_outcome)
              IN  [ret    |-> Return(IF parsed.kind = "return" THEN parsed.value
                                     ELSE hard_fallback),
                   prompt |-> PyStr(fallback_prompt(crop_type)),
                   user   |-> user_id]
         ELSE [ret |-> Return(hard_fallback), prompt |-> PyNone, user |-> user_id]
    ELSE LET primary_match == disease_matches[1]
             crop          == StrOr(crop_type, primary_match.crop)
             condition     == primary_match.condition
             is_healthy    == primary_match.is_healthy
             llm_prompt    == IF is_healthy THEN healthy_prompt(crop, disease_matches)
                              ELSE treatment_prompt(crop, condition, disease_matches)
             fallback      == get_fallback_recommendations(crop, condition, disease_matches)
         IN  IF llm_model # PyNone
             THEN LET parsed == chat_recommendations(chat_outcome)
                  IN  [ret    |-> Return(
                                    IF parsed.kind = "return"
                                    THEN DictSet(DictSet(parsed.value, "similar_cases",
                                                         similar_cases(disease_matches)),
                                                 "model_used",
                                                 PyStr(Get(chat_outcome.value, "model",
                                                           "unknown")))
                                    ELSE fallback),
                       prompt |-> PyStr(llm_prompt),
                       user   |-> user_id]
             ELSE [ret |-> Return(fallback), prompt |-> PyNone, user |-> user_id]

(***************************************************************************)
(* Inputs of the synthesizer: evidence lists, crop hints, generator texts. *)
(***************************************************************************)
\* longest evidence list handed to get_treatment_recommendations
MaxEvidence == 4

EvidenceScores == <<800, 700, 700, 375, 125>>

\* the i-th (1-based) candidate match: a search result for catalog row i-1
Match(i) ==
    SearchResult([j \in 1..i |-> CatalogRow(j - 1)],
                 [score |-> EvidenceScores[((i - 1) % Len(EvidenceScores)) + 1], idx |-> i - 1])

RECURSIVE MatchesOf(_)
\* the candidate matches whose numbers are in S, best first
MatchesOf(S) ==
    IF S = {} THEN <<>>
    ELSE LET i == CHOOSE x \in S : \A y \in S : x <= y
         IN  <<Match(i)>> \o MatchesOf(S \ {i})

EvidenceLists == {MatchesOf(S) : S \in SUBSET (1..MaxEvidence)}

\* crop_type as the caller passes it: absent, empty, or a crop name
CropHints == {PyNone, PyStr(""), PyStr("Pepper")}

Users == {"u1"}

\* what llm_model.chat(...) may do: raise, report failure, or answer with a text
ChatOutcomes ==
    {Raise("Exception"),
     Return([success |-> FALSE, response |-> "Both models failed: timeout",
             error |-> "timeout", model |-> "none"])}
    \cup {Return([success |-> TRUE, response |-> t, model |-> "gemini-2.0-flash"]) :
             t \in Responses}
    \cup {Return([success |-> TRUE, response |-> WellFormed, model |-> "ollama-llama3:8b"]),
          Return([success |-> TRUE, response |-> PlainProse]),
          Return([success |-> TRUE])}

\* the generator outcomes tried behind /diagnose: a raise, a reported failure, a
\* well-formed answer, an answer lacking fields, and free text
DiagnoseChatOutcomes ==
    {Raise("Exception"),
     Return([success |-> FALSE, response |-> "Both models failed: timeout",
             error |-> "timeout", model |-> "none"])}
    \cup {Return([success |-> TRUE, response |-> t, model |-> "gemini-2.0-flash"]) :
             t \in {WellFormed, MissingFields, ProseWithBullets}}

\* stands for "chat is not called" when the service holds no generator
NoChat == Raise("not called")

(***************************************************************************)
(* routers/ai.py: the /diagnose handler.                                   *)
(***************************************************************************)
\* analyze_image_symptoms(image_path): the fixed description it returns
analyze_image_symptoms ==
    "Plant leaf showing potential disease symptoms. "
    \o "Analyzing for spots, discoloration, wilting, or other abnormalities. "
    \o "Please provide additional context about the crop type and observed symptoms."

\* top_k of the handler's search
DiagnoseTopK == 5

\* search_query: the parts that are given, joined by ". "
search_query(crop_type, symptoms, location) ==
    Join((IF Truthy(crop_type) THEN <<"Crop: " \o crop_type.s>> ELSE <<>>)
         \o (IF Truthy(symptoms) THEN <<"Symptoms: " \o symptoms.s>> ELSE <<>>)
         \o <<"Image analysis: " \o analyze_image_symptoms>>
         \o (IF Truthy(location) THEN <<"Location: " \o location.s>> ELSE <<>>),
         ". ")

\* whether PlantDiagnosisResponse accepts v for a field declared str
IsStrField(v) == v.t = "str"

\* whether PlantDiagnosisResponse accepts v for a field declared List[str]
IsStrListField(v) == v.t = "list" /\ \A i \in 1..Len(v.l) : v.l[i].t = "str"

HTTPException(status) == Raise([status_code |-> status])

\* the response built when the search returned nothing
no_match_response(crop_type) ==
    [success             |-> TRUE,
     primary_diagnosis   |-> PyStr("Unable to identify specific disease"),
     confidence          |-> PyStr("low"),
     crop_type           |-> crop_type,
     condition           |-> PyStr("Unknown"),
     is_healthy          |-> FALSE,
     similar_cases       |-> PyList(<<>>),
     recommendations     |-> PyList(<<PyStr("Consult with a local agricultural expert")>>),
     preventive_measures |-> PyList(<<PyStr("Maintain good crop hygiene"),
                                      PyStr("Ensure proper spacing")>>),
     fertilizer_advice   |-> PyStr("Use balanced NPK fertilizer as per soil test"),
     urgency             |-> PyStr("medium"),
     llm_analysis        |-> PyStr("Insufficient data for diagnosis. "
                                   \o "Please provide more specific symptoms.")]

\* the response built from treatment_info; a field of the wrong type fails the
\* response model's validation, which the handler turns into a 500
treatment_response(treatment_info, similar_diseases, crop_type) ==
    LET llm_analysis == Get(treatment_info, "llm_analysis",
                            PyStr("Analysis completed using database recommendations."))
        primary_case == similar_diseases[1]
    IN  IF /\ IsStrField(llm_analysis)
           /\ IsStrField(treatment_info["primary_diagnosis"])
           /\ IsStrField(treatment_info["confidence"])
           /\ IsStrListField(treatment_info["recommendations"])
           /\ IsStrListField(treatment_info["preventive_measures"])
           /\ IsStrField(treatment_info["fertilizer_advice"])
           /\ IsStrField(treatment_info["urgency"])
        THEN Return([success             |-> TRUE,
                     primary_diagnosis   |-> treatment_info["primary_diagnosis"],
                     confidence          |-> treatment_info["confidence"],
                     crop_type           |-> PyStr(StrOr(crop_type, primary_case.crop)),
                     condition           |-> PyStr(primary_case.condition),
                     is_healthy          |-> primary_case.is_healthy,
                     similar_cases       |-> Get(treatment_info, "similar_cases", PyList(<<>>)),
                     recommendations     |-> treatment_info["recommendations"],
                     preventive_measures |-> treatment_info["preventive_measures"],
                     fertilizer_advice   |-> treatment_info["fertilizer_advice"],
                     urgency             |-> treatment_info["urgency"],
                     llm_analysis        |-> llm_analysis])
        ELSE HTTPException(500)

\* the response to a request whose search found similar_diseases and whose call of
\* get_treatment_recommendations yielded treatment
treated_response(treatment, similar_diseases, crop_type) ==
    [ret      |-> treatment_response(treatment.ret.value, similar_diseases, crop_type),
     searched |-> TRUE,
     prompt   |-> treatment.prompt]

\* the handler from the search result on; each intermediate result is computed once
searched_response(similar_diseases, llm_model, crop_type, user_id, chat_outcome) ==
    IF similar_diseases = <<>>
    THEN [ret |-> Return(no_match_response(crop_type)), searched |-> TRUE, prompt |-> PyNone]
    ELSE CHOOSE response \in
             {treated_response(treatment, similar_diseases, crop_type) :
                  treatment \in {get_treatment_recommendations(
                                     llm_model, similar_diseases, crop_type, user_id,
                                     chat_outcome)}} : TRUE

\* the handler's call of search_similar_diseases and what follows it
search_and_respond(idx, rows, mdl, llm_model, crop_type, symptoms, location, user_id, fault, chat_outcome) ==
    CHOOSE response \in
        {searched_response(similar_diseases, llm_model, crop_type, user_id, chat_outcome) :
             similar_diseases \in
                 {search_similar_diseases(idx, rows, mdl, query, DiagnoseTopK, fault).value :
                      query \in {search_query(crop_type, symptoms, location)}}} : TRUE

\* a handler without the readiness check: a service that is not ready is searched
\* and answered like an empty search
diagnose_plant_disease_Unguarded(idx, rows, mdl, llm_model, is_image, crop_type, symptoms, location, user_id, fault, chat_outcome) ==
    IF ~is_image
    THEN [ret |-> HTTPException(400), searched |-> FALSE, prompt |-> PyNone]
    ELSE search_and_respond(idx, rows, mdl, llm_model, crop_type, symptoms, location,
                            user_id, fault, chat_outcome)

\* diagnose_plant_disease on the service (idx, rows, mdl, llm_model); is_image says
\* whether the upload's content type starts with "image/".  Yields the outcome,
\* whether search_similar_diseases was called, and the prompt sent (None if none)
diagnose_plant_disease(idx, rows, mdl, llm_model, is_image, crop_type, symptoms, location, user_id, fault, chat_outcome) ==
    IF ~is_service_ready(idx, rows, mdl)
    THEN [ret |-> HTTPException(503), searched |-> FALSE, prompt |-> PyNone]
    ELSE IF ~is_image
    THEN [ret |-> HTTPException(400), searched |-> FALSE, prompt |-> PyNone]
    ELSE search_and_respond(idx, rows, mdl, llm_model, crop_type, symptoms, location,
                            user_id, fault, chat_outcome)

(***************************************************************************)
(* The generator client (models/llm_ollama.py HybridLLM) as the service    *)
(* builds it in _initialize_llm: Gemini preferred, Ollama as the backup,   *)
(* a conversation history kept on the object and, per user, in Redis.      *)
(***************************************************************************)
\* self.llm.system_prompt, set by _initialize_llm
agricultural_prompt ==
    "You are an expert agricultural AI specializing in plant disease diagnosis and treatment recommendations. \n" \o
    "\n" \o
    "When providing treatment recommendations, always respond in valid JSON format with these exact fields:\n" \o
    "{\n" \o
    "    \"primary_diagnosis\": \"clear diagnosis statement\",\n" \o
    "    \"confidence\": \"high/medium/low\",\n" \o
    "    \"recommendations\": [\"list of 4-6 specific treatment steps\"],\n" \o
    "    \"preventive_measures\": [\"list of 4-6 prevention strategies\"],\n" \o
    "    \"fertilizer_advice\": \"specific fertilizer recommendation\",\n" \o
    "    \"urgency\": \"low/medium/high\"\n" \o
    "}\n" \o
    "\n" \o
    "Provide practical, science-based advice that farmers can implement. Consider:\n" \o
    "- Immediate actions needed\n" \o
    "- Chemical vs organic treatment options\n" \o
    "- Environmental management\n" \o
    "- Safety precautions\n" \o
    "- Cost-effective solutions\n" \o
    "- Local availability of treatments\n" \o
    "\n" \o
    "Always prioritize farmer safety and environmental sustainability."

\* how many history messages a conversation re-sends, and how many the object keeps
HistoryWindow == 10
HistoryCap == 20

\* seq[-n:]
LastN(seq, n) == IF Len(seq) > n THEN SubSeq(seq, Len(seq) - n + 1, Len(seq)) ELSE seq

\* HybridLLM(prefer_gemini=True, timeout=60) after __init__; redis_client is None or
\* the store of chat_history:{user_id} keys (no key reads as the empty history)
HybridLLM(gemini_available, ollama_available, redis_client) ==
    [t |-> "HybridLLM", prefer_gemini |-> TRUE, gemini_available |-> gemini_available,
     ollama_available |-> ollama_available, conversation_history |-> <<>>,
     redis_client |-> redis_client]

RECURSIVE Turns(_, _)
\* the history messages from the i-th on, each as "Human: ..." or "Assistant: ..." and
\* followed by a blank line
Turns(recent, i) ==
    IF i > Len(recent) THEN ""
    ELSE (IF recent[i].role = "user" THEN "Human" ELSE "Assistant") \o ": " \o recent[i].content
         \o "\n\n" \o Turns(recent, i + 1)

\* _build_gemini_conversation(message): the parts joined by blank lines
_build_gemini_conversation(h, message) ==
    CHOOSE text \in {"System: " \o agricultural_prompt \o "\n\n" \o Turns(recent, 1)
                     \o "Human: " \o message \o "\n\nAssistant:" :
                        recent \in {LastN(h.conversation_history, HistoryWindow)}} : TRUE

\* _build_ollama_messages(message)
_build_ollama_messages(h, message) ==
    <<[role |-> "system", content |-> agricultural_prompt]>>
    \o LastN(h.conversation_history, HistoryWindow)
    \o <<[role |-> "user", content |-> message]>>

\* chat, up to the request to the backend: the history of user_id is loaded from Redis
\* when there is a Redis client
load_history(h, user_id) ==
    IF user_id # "" /\ h.redis_client # PyNone
    THEN [h EXCEPT !.conversation_history = h.redis_client.chat_history[user_id]]
    ELSE h

\* _chat_with_gemini / _chat_with_ollama after the backend answered, then the end of
\* chat: the exchange joins the history, which is cut to its last 20 and saved to Redis
record_exchange(h, user_id, message, ai_message) ==
    LET history == LastN(h.conversation_history
                         \o <<[role |-> "user", content |-> message],
                              [role |-> "assistant", content |-> ai_message]>>, HistoryCap)
    IN  [h EXCEPT !.conversation_history = history,
                  !.redis_client = IF user_id # "" /\ h.redis_client # PyNone
                                   THEN [h.redis_client EXCEPT !.chat_history[user_id] = history]
                                   ELSE h.redis_client]

\* _retry_with_fallback: the backend tried first
first_model(h) ==
    IF h.prefer_gemini /\ h.gemini_available THEN "gemini"
    ELSE IF h.ollama_available THEN "ollama" ELSE "gemini"

\* _retry_with_fallback: the backend tried after use_model raised, or None
fallback_model(h, use_model, attempt) ==
    IF attempt # 1 THEN PyNone
    ELSE IF h.prefer_gemini /\ h.gemini_available
         THEN (IF h.ollama_available THEN PyStr("ollama") ELSE PyNone)
         ELSE (IF h.gemini_available THEN PyStr("gemini") ELSE PyNone)

\* chat(..., use_model=use_model): whether the requested backend is there to be called
model_available(h, use_model) ==
    \/ use_model = "gemini" /\ h.gemini_available
    \/ use_model = "ollama" /\ h.ollama_available

\* what the backend is sent: the conversation text for Gemini, the messages for Ollama
request_to(h, use_model, message) ==
    IF use_model = "gemini" THEN PyStr(_build_gemini_conversation(h, message))
    ELSE PyList(_build_ollama_messages(h, message))

\* variant: the result always names Gemini
chat_success_NamesGemini(use_model, ai_message) ==
    Return([success |-> TRUE, response |-> ai_message, model |-> "gemini-2.0-flash"])

\* the result of chat when the backend answered ai_message
chat_success(use_model, ai_message) ==
    Return([success |-> TRUE, response |-> ai_message,
            model |-> IF use_model = "gemini" THEN "gemini-2.0-flash" ELSE "ollama-llama3:8b"])

\* the result of chat when the last backend tried raised e
chat_failure(e) ==
    Return([success |-> FALSE, response |-> "Both models failed: " \o e, error |-> e,
            model |-> "none"])

\* no generator call is under way
NoCall == [pc |-> "idle"]

\* the wrapper calls chat(message, use_model=use_model): the call c is left waiting for
\* the backend, or chat raises at once because the backend is not there; only
\* first_model can be missing, and then no backend is left to fall back to
start_attempt(h, c, use_model, attempt) ==
    CHOOSE step \in
        {IF model_available(h, use_model)
         THEN [llm    |-> loaded,
               call   |-> [c EXCEPT !.pc = use_model, !.attempt = attempt,
                                    !.request = request_to(loaded, use_model, c.message)],
               result |-> PyNone]
         ELSE [llm    |-> loaded,
               call   |-> NoCall,
               result |-> chat_failure("Requested model " \o use_model \o " not available")] :
            loaded \in {load_history(h, c.user_id)}} : TRUE

\* the backend of the waiting call c raised e: the wrapper tries the other backend
\* once, or gives up with the failure result
after_raise(h, c, e) ==
    CHOOSE step \in
        {IF next # PyNone THEN start_attempt(h, c, next.s, 2)
         ELSE [llm |-> h, call |-> NoCall, result |-> chat_failure(e)] :
            next \in {fallback_model(h, c.pc, c.attempt)}} : TRUE

\* the backend of the waiting call c answered ai_message
after_answer(h, c, ai_message) ==
    [llm    |-> record_exchange(h, c.user_id, c.message, ai_message),
     call   |-> NoCall,
     result |-> chat_success(c.pc, ai_message)]

\* the users of the conversation runs, their evidence lists and the generator's answers
ChatUsers == {"u1", "u2"}
ChatEvidence == {<<>>, MatchesOf({1}), MatchesOf({2, 3})}
ChatAnswers == {WellFormed, PlainProse}
\* exchanges a history may hold when a call begins
MaxExchanges == 2

\* the Redis store with no key yet
EmptyRedis == [t |-> "Redis", chat_history |-> [u \in ChatUsers |-> <<>>]]

\* HybridLLM._determine_active_model()
_determine_active_model(h) ==
    IF h.prefer_gemini /\ h.gemini_available THEN "gemini-2.0-flash"
    ELSE IF h.ollama_available THEN "ollama-llama3:8b"
    ELSE IF h.gemini_available THEN "gemini-2.0-flash" ELSE "none"

\* HybridLLM.get_model_status(), for the clients whose API key is set
get_model_status(h) ==
    [gemini |-> [available |-> h.gemini_available,
                 model |-> IF h.gemini_available THEN PyStr("gemini-2.0-flash") ELSE PyNone,
                 api_key_configured |-> TRUE],
     ollama |-> [available |-> h.ollama_available,
                 model |-> IF h.ollama_available THEN PyStr("llama3:8b") ELSE PyNone,
                 base_url |-> "http://localhost:11434"],
     active_model |-> _determine_active_model(h),
     prefer_gemini |-> h.prefer_gemini,
     conversation_length |-> Len(h.conversation_history)]

\* get_service_info() on a service with these fields
get_service_info(idx, rows, mdl, ty, llm_model) ==
    [ready |-> is_service_ready(idx, rows, mdl),
     index_loaded |-> idx # PyNone,
     model_loaded |-> mdl # PyNone,
     metadata_count |-> Len(rows),
     index_type |-> ty,
     base_directory |-> ".",
     llm_available |-> llm_model # PyNone,
     llm_status |-> IF llm_model # PyNone THEN PyDict(get_model_status(llm_model))
                    ELSE PyStr("Not initialized")]

(***************************************************************************)
(* The indexer (index.py): class folders of images become the metadata     *)
(* table and the vector index.                                             *)
(***************************************************************************)
\* the printable ASCII characters in code-point order: 32..95 and 97..126
AsciiLow == " !\"#$%&'()*+,-./0123456789:;<=>?@ABCDEFGHIJKLMNOPQRSTUVWXYZ[\\]^_"
AsciiHigh == "abcdefghijklmnopqrstuvwxyz{|}~"

\* ord(c) of a printable character, 0 for any other
Ord(c) ==
    IF \E i \in 1..Len(AsciiLow) : Char(AsciiLow, i) = c
    THEN 31 + (CHOOSE i \in 1..Len(AsciiLow) : Char(AsciiLow, i) = c)
    ELSE IF \E i \in 1..Len(AsciiHigh) : Char(AsciiHigh, i) = c
    THEN 96 + (CHOOSE i \in 1..Len(AsciiHigh) : Char(AsciiHigh, i) = c)
    ELSE 0

\* a < b for str
StrLess(a, b) ==
    \E i \in 1..(Len(a) + 1) :
        /\ i <= Len(b)
        /\ SubSeq(a, 1, i - 1) = SubSeq(b, 1, i - 1)
        /\ (i > Len(a) \/ Ord(Char(a, i)) < Ord(Char(b, i)))

RECURSIVE Sorted(_)
\* sorted(S) for a set of str
Sorted(S) ==
    IF S = {} THEN <<>>
    ELSE LET least == CHOOSE a \in S : \A b \in S \ {a} : StrLess(a, b)
         IN  <<least>> \o Sorted(S \ {least})

\* s.find(sub) + 1: where sub first starts in s, 0 when it does not occur
Find(s, sub) ==
    IF Contains(s, sub)
    THEN CHOOSE i \in 1..(Len(s) - Len(sub) + 1) :
             /\ SubSeq(s, i, i + Len(sub) - 1) = sub
             /\ \A j \in 1..(i - 1) : SubSeq(s, j, j + Len(sub) - 1) # sub
    ELSE 0

\* s.rfind(sub) + 1
RFind(s, sub) ==
    IF Contains(s, sub)
    THEN CHOOSE i \in 1..(Len(s) - Len(sub) + 1) :
             /\ SubSeq(s, i, i + Len(sub) - 1) = sub
             /\ \A j \in (i + 1)..(Len(s) - Len(sub) + 1) : SubSeq(s, j, j + Len(sub) - 1) # sub
    ELSE 0

\* s[i:] for a 1-based i
From(s, i) == SubSeq(s, i, Len(s))

\* s[a-1:b]: a slice may end past the end of s
Slice(s, a, b) == SubSeq(s, a, IF b <= Len(s) THEN b ELSE Len(s))

CROP_ALIASES == {<<"pepper, bell", "Bell pepper">>, <<"corn (maize)", "Corn">>}

DISEASE_DEFAULT_CROP == {<<"brown spot", "Rice">>, <<"leaf smut", "Rice">>, <<"bacterial leaf blight", "Rice">>}

\* d.get(key, default) for a dict held as a set of pairs
Lookup(d, key, default) ==
    IF \E p \in d : p[1] = key THEN (CHOOSE p \in d : p[1] = key)[2] ELSE default

\* the characters _norm turns into a blank: '-', the class [_(),/] and \s
NormBlanks == {"-", "_", "(", ")", ",", "/", " ", "\n", "\t"}

RECURSIVE NormFrom(_, _, _)
\* s[i:] with every run of NormBlanks collapsed to one blank; after_blank drops a leading run
NormFrom(s, i, after_blank) ==
    IF i > Len(s) THEN ""
    ELSE IF Char(s, i) \in NormBlanks
         THEN (IF after_blank THEN "" ELSE " ") \o NormFrom(s, i + 1, TRUE)
         ELSE Char(s, i) \o NormFrom(s, i + 1, FALSE)

_norm(s) == RStripSet(NormFrom(s, 1, TRUE), {" "})

_canon_crop(crop) == Lookup(CROP_ALIASES, Lower(crop), crop)

\* the character class [_\s-] of the folder-name patterns
Separators == {"_", "-", " ", "\n", "\t"}

\* how many characters of Separators s[i:] starts with
SeparatorRun(s, i) ==
    CHOOSE k \in 0..(Len(s) - i + 1) :
        /\ \A j \in i..(i + k - 1) : Char(s, j) \in Separators
        /\ Char(s, i + k) \notin Separators

\* re.match(r'^(?:resized_)?banana[_-](.+)$', name, re.I): group 1, or None
BananaMatch(name) ==
    LET nlow == Lower(name)
        p    == IF StartsWith(nlow, "resized_banana") THEN 8 ELSE 0
    IN  IF Slice(nlow, p + 1, p + 6) = "banana" /\ Char(nlow, p + 7) \in {"_", "-"}
           /\ Len(name) > p + 7
        THEN PyStr(From(name, p + 8))
        ELSE PyNone

\* re.match(r'^(resized_)?banana[_-]', nlow)
IsBanana(nlow) ==
    LET p == IF StartsWith(nlow, "resized_banana") THEN 8 ELSE 0
    IN  Slice(nlow, p + 1, p + 6) = "banana" /\ Char(nlow, p + 7) \in {"_", "-"}

\* re.sub(r'^[_\s-]*leaf[_\s-]*', '', rest, flags=re.I)
StripLeaf(rest) ==
    LET a == SeparatorRun(rest, 1)
    IN  IF Lower(Slice(rest, a + 1, a + 4)) = "leaf"
        THEN From(rest, a + 5 + SeparatorRun(rest, a + 5))
        ELSE rest

\* the length of the prefix (good|ill) of nlow, 0 when it has neither
GoodIllPrefix(nlow) ==
    IF StartsWith(nlow, "good") THEN 4 ELSE IF StartsWith(nlow, "ill") THEN 3 ELSE 0

\* re.match(r'^(good|ill)[_\s-]+', nlow)
IsGoodIll(nlow) == GoodIllPrefix(nlow) > 0 /\ SeparatorRun(nlow, GoodIllPrefix(nlow) + 1) >= 1

\* re.match(r'^(good|ill)[_\s-]+(.+)$', name, re.I): groups 1 and 2, or None;
\* when only separators follow the prefix, the last of two or more is given to group 2
GoodIllMatch(name) ==
    LET p == GoodIllPrefix(Lower(name))
        k == SeparatorRun(name, p + 1)
    IN  IF p = 0 \/ k = 0 THEN PyNone
        ELSE IF p + k < Len(name) THEN [t |-> "match", g1 |-> SubSeq(name, 1, p), g2 |-> From(name, p + k + 1)]
        ELSE IF k >= 2 THEN [t |-> "match", g1 |-> SubSeq(name, 1, p), g2 |-> From(name, p + k)]
        ELSE PyNone

\* variant: the banana rule is tried before the triple-underscore rule
ClassParts_BananaFirst(name) ==
    LET nlow == Lower(name)
    IN  IF IsBanana(nlow)
        THEN [crop      |-> "Banana",
              condition |-> IF BananaMatch(name) # PyNone THEN _norm(BananaMatch(name).s) ELSE "unknown"]
        ELSE IF Contains(name, "___")
        THEN [crop      |-> _canon_crop(_norm(SubSeq(name, 1, Find(name, "___") - 1))),
              condition |-> _norm(From(name, Find(name, "___") + 3))]
        ELSE IF StartsWith(nlow, "sugarcane")
        THEN [crop      |-> "Sugarcane",
              condition |-> IF _norm(StripLeaf(From(name, Len("Sugarcane") + 1))) # ""
                            THEN _norm(StripLeaf(From(name, Len("Sugarcane") + 1))) ELSE "unknown"]
        ELSE IF IsGoodIll(nlow)
        THEN [crop      |-> IF GoodIllMatch(name) # PyNone THEN _canon_crop(_norm(GoodIllMatch(name).g2)) ELSE "Unknown",
              condition |-> IF GoodIllMatch(name) # PyNone /\ Lower(GoodIllMatch(name).g1) = "good"
                            THEN "healthy" ELSE "diseased"]
        ELSE IF Contains(name, "_")
        THEN [crop      |-> _canon_crop(_norm(SubSeq(name, 1, Find(name, "_") - 1))),
              condition |-> _norm(From(name, Find(name, "_") + 1))]
        ELSE [crop      |-> Lookup(DISEASE_DEFAULT_CROP, Lower(_norm(name)), "Unknown"),
              condition |-> _norm(name)]

\* the (crop, condition) pair parse_class reaches before its last three lines
ClassParts(name) ==
    LET nlow == Lower(name)
    IN  IF Contains(name, "___")
        THEN [crop      |-> _canon_crop(_norm(SubSeq(name, 1, Find(name, "___") - 1))),
              condition |-> _norm(From(name, Find(name, "___") + 3))]
        ELSE IF IsBanana(nlow)
        THEN [crop      |-> "Banana",
              condition |-> IF BananaMatch(name) # PyNone THEN _norm(BananaMatch(name).s) ELSE "unknown"]
        ELSE IF StartsWith(nlow, "sugarcane")
        THEN [crop      |-> "Sugarcane",
              condition |-> IF _norm(StripLeaf(From(name, Len("Sugarcane") + 1))) # ""
                            THEN _norm(StripLeaf(From(name, Len("Sugarcane") + 1))) ELSE "unknown"]
        ELSE IF IsGoodIll(nlow)
        THEN [crop      |-> IF GoodIllMatch(name) # PyNone THEN _canon_crop(_norm(GoodIllMatch(name).g2)) ELSE "Unknown",
              condition |-> IF GoodIllMatch(name) # PyNone /\ Lower(GoodIllMatch(name).g1) = "good"
                            THEN "healthy" ELSE "diseased"]
        ELSE IF Contains(name, "_")
        THEN [crop      |-> _canon_crop(_norm(SubSeq(name, 1, Find(name, "_") - 1))),
              condition |-> _norm(From(name, Find(name, "_") + 1))]
        ELSE [crop      |-> Lookup(DISEASE_DEFAULT_CROP, Lower(_norm(name)), "Unknown"),
              condition |-> _norm(name)]

\* parse_class(folder_name): (crop, condition, is_healthy, class_name)
parse_class(folder_name) ==
    LET parts     == ClassParts(RStripSet(Strip(folder_name), {"_"}))
        crop      == _canon_crop(parts.crop)
        condition == parts.condition
    IN  [crop       |-> crop,
         condition  |-> condition,
         is_healthy |-> Lower(condition) \in {"healthy", "leaf healthy", "good"},
         class_name |-> crop \o " - " \o condition]

\* Path(name).suffix
Suffix(name) ==
    IF RFind(name, ".") > 1 /\ RFind(name, ".") < Len(name) THEN From(name, RFind(name, ".")) ELSE ""

\* the text build_docs gives every image of a class
doc_text(c) ==
    "Crop: " \o c.crop \o ". Condition: " \o c.condition \o ". This is a leaf image labeled '"
    \o c.class_name \o "'. Healthy: " \o (IF c.is_healthy THEN "yes" ELSE "no") \o "."

RECURSIVE ClassRows(_, _, _, _, _)
\* the inner loop of build_docs over class_dir.glob("*.*"), from file i on
ClassRows(dir, c, files, i, rows) ==
    IF i > Len(files) THEN rows
    ELSE IF ~Contains(files[i], ".") \/ Lower(Suffix(files[i])) \notin {".jpg", ".jpeg", ".png"}
         THEN ClassRows(dir, c, files, i + 1, rows)
         ELSE ClassRows(dir, c, files, i + 1,
                        Append(rows, [id         |-> Len(rows),
                                      class_name |-> c.class_name,
                                      crop       |-> c.crop,
                                      condition  |-> c.condition,
                                      is_healthy |-> c.is_healthy,
                                      image_path |-> "Plant_Disease_Dataset/" \o dir \o "/" \o files[i],
                                      text       |-> doc_text(c)]))

RECURSIVE DocsFrom(_, _, _, _)
\* the outer loop of build_docs over the sorted class folders, from folder i on
DocsFrom(data_dir, dirs, i, rows) ==
    IF i > Len(dirs) THEN rows
    ELSE DocsFrom(data_dir, dirs, i + 1,
                  ClassRows(dirs[i], parse_class(dirs[i]), data_dir[dirs[i]], 1, rows))

\* build_docs(): data_dir maps each class folder to its entries in the order glob yields them
build_docs(data_dir) == DocsFrom(data_dir, Sorted(DOMAIN data_dir), 1, <<>>)

\* csv.DictWriter.writerow(r): every column written as str(value)
csv_row(r) ==
    [id         |-> NatToStr(r.id),
     class_name |-> r.class_name,
     crop       |-> r.crop,
     condition  |-> r.condition,
     is_healthy |-> IF r.is_healthy THEN "True" ELSE "False",
     image_path |-> r.image_path,
     text       |-> r.text]

\* a path that does not exist, and a file with its content
NoFile == [t |-> "absent"]
File(content) == [t |-> "file", content |-> content]

\* save_metadata(rows): the content of META_CSV
save_metadata(rows) == File([i \in 1..Len(rows) |-> csv_row(rows[i])])

RECURSIVE Embeddings(_, _, _)
\* the batch loop of build_faiss: the list of arrays model.encode returns, one per batch
Embeddings(texts, i, batch_size) ==
    IF i > Len(texts) THEN <<>>
    ELSE <<[j \in 1..((IF i + batch_size - 1 <= Len(texts) THEN i + batch_size - 1 ELSE Len(texts)) - i + 1) |-> encode(texts[i + j - 1])]>>
         \o Embeddings(texts, i + batch_size, batch_size)

RECURSIVE vstack(_)
\* np.vstack(arrays) of a non-empty list
vstack(arrays) == IF Len(arrays) = 1 THEN arrays[1] ELSE arrays[1] \o vstack(Tail(arrays))

\* what goes wrong inside build_faiss: nothing, the embedding model fails to load, or encode fails
IndexerFaults == {"none", "load", "encode"}

\* build_faiss(rows, batch_size=batch_size): the content written to FAISS_FILE, or the exception
build_faiss(rows, batch_size, fault) ==
    LET texts == [i \in 1..Len(rows) |-> rows[i].text]
    IN  IF fault = "load" THEN Raise("OSError")
        ELSE IF fault = "encode" /\ Len(texts) > 0 THEN Raise("RuntimeError")
        ELSE IF Embeddings(texts, 1, batch_size) = <<>> THEN Raise("ValueError")
        ELSE Return(File(vstack(Embeddings(texts, 1, batch_size))))

\* batch sizes build_faiss is called with; 256 is its default
BatchSizes == {1, 2, 256}

\* contents of Plant_Disease_Dataset: class folders and the entries inside each
Datasets == {
    <<>>,
    [d \in {"Tomato___Leaf_Mold"} |-> <<"a.jpg">>],
    [d \in {"Tomato___healthy", "Tomato___Leaf_Mold"} |-> IF d = "Tomato___healthy" THEN <<"b.PNG", "notes.txt">> ELSE <<"a.jpg", "c.jpeg">>],
    [d \in {"Brown spot", "Potato___Early_blight_"} |-> IF d = "Brown spot" THEN <<"r.1.JPG">> ELSE <<"p.jpg">>],
    [d \in {"good_Cucumber"} |-> <<"README", ".jpg", "x.gif">>],
    [d \in {"Sugarcane_Leaf_Rust", "BANANA_sigatoka", "Pepper,_bell___Bacterial_spot"} |-> <<"s.jpg">>] }

\* _load_metadata: list(csv.DictReader(f)) of the table, [] when the file is missing
load_metadata(file) == IF file = NoFile THEN <<>> ELSE file.content

\* class folder names: a first part, a separator and a rest in every combination, and
\* names that are trimmed, lack a separator or end in one
FolderNames ==
    {a \o s \o b : a \in {"Tomato", "BANANA", "resized_banana", "Sugarcane", "good", "Ill",
                           "Pepper,_bell", "Corn_(maize)"},
                    s \in {"___", "_", "-", " "},
                    b \in {"healthy", "Healthy", "Leaf_Rust", "Leaf_Healthy", "Common_rust_", "good"}}
    \cup {"Brown spot", "Leaf smut", "Bacterial leaf blight", "good_Cucumber", "Ill_cucumber",
          " Tomato___Leaf_Mold ", "Tomato___", "good-", "banana-", "healthy", "Sugarcane",
          "RESIZED_BANANA_Sigatoka", "Pepper,_bell___Bacterial_spot", "Corn_(maize)___Common_rust_"}

(***************************************************************************)
(* Construction: __init__ loads whatever artifacts the disk holds.         *)
(***************************************************************************)
Queries == {"white mold on tomato leaves", "potato blight", "healthy green leaf",
            "yellow spots"}

Faults == {"none", "encode", "search"}

\* _load_index: the index file missing or unreadable leaves None and "unknown"
LoadedIndexes ==
    {[index |-> PyNone, index_type |-> "unknown"]}
    \cup {[index |-> FaissIndex([i \in 1..n |-> CatalogVector(i - 1)], ties),
            index_type |-> ty] :
             n \in 0..MaxRows, ty \in {"sbert", "tfidf"}, ties \in TieOrders}

\* _load_metadata: the CSV missing or unreadable leaves []
LoadedMetadata == {[i \in 1..n |-> CatalogRow(i - 1)] : n \in 0..MaxRows}

\* _load_embedding_model: the vectorizer for "tfidf", else the sentence transformer
LoadedModels(ty) ==
    {PyNone, [t |-> IF ty = "tfidf" THEN "TfidfVectorizer" ELSE "SentenceTransformer"]}

\* no call is in progress: the process waits for the next request
Idle == [op |-> "idle"]

(***************************************************************************)
(* OTPService (user_service.py): one-time codes in the otps collection.    *)
(***************************************************************************)
\* settings.OTP_EXPIRE_MINUTES
OTP_EXPIRE_MINUTES == 5

\* OTPVerification.max_attempts
max_attempts == 3

\* the phone numbers that ask for codes, and the codes generate_otp may draw
Phones == {"+911", "+912"}
Codes == {"111111", "222222"}

\* how many calls are made on the service, and how far the clock runs
MaxRequests == 3
MaxTime == 10

\* OTPVerification(phone_number, otp_code, expires_at) as inserted: the document's _id is
\* told apart by the call that made it
OTPVerification(id, phone_number, otp_code, expires_at) ==
    [id |-> id, phone_number |-> phone_number, otp_code |-> otp_code, expires_at |-> expires_at,
     is_verified |-> FALSE, attempts |-> 0, max_attempts |-> max_attempts]

\* the documents find_one of verify_otp may return
Unverified(docs, phone_number, otp_code) ==
    {d \in docs : d.phone_number = phone_number /\ d.otp_code = otp_code /\ ~d.is_verified}

\* the create_otp calls that had returned
Returned(reqs) == {r \in 1..Len(reqs) : reqs[r].op = "create_otp" /\ reqs[r].pc = "done"}

\* no code was ever asked for
NoOtp ==
    /\ otps = {}
    /\ requests = <<>>
    /\ now = 0

\* the indexer script is not running and has written nothing
NoIndexing ==
    /\ DATA_DIR = <<>>
    /\ META_CSV = NoFile
    /\ FAISS_FILE = NoFile
    /\ indexer = [pc |-> "idle", rows |-> <<>>, fault |-> "none"]

Init ==
    /\ NoIndexing
    /\ NoOtp
    /\ call = NoCall
    /\ \E ix \in LoadedIndexes :
          /\ index = ix.index
          /\ index_type = ix.index_type
          /\ model \in LoadedModels(ix.index_type)
    /\ metadata \in LoadedMetadata
    /\ llm \in {PyNone, [t |-> "HybridLLM"]}
    /\ last = Idle

(***************************************************************************)
(* Requests.                                                               *)
(***************************************************************************)
\* variant: a failed search drops the index
Search_DropsIndexOnFault ==
    \E q \in Queries, k \in 0..MaxTopK, f \in Faults :
        /\ last = Idle /\ call = NoCall
        /\ last' = [op |-> "search_similar_diseases", query |-> q, top_k |-> k, fault |-> f,
                    ret |-> search_similar_diseases(index, metadata, model, q, k, f)]
        /\ index' = IF f = "none" THEN index ELSE PyNone
        /\ UNCHANGED <<auth, metadata, model, index_type, llm, indexing, call>>

Search ==
    \E q \in Queries, k \in 0..MaxTopK, f \in Faults :
        /\ last = Idle /\ call = NoCall
        /\ last' = [op |-> "search_similar_diseases", query |-> q, top_k |-> k, fault |-> f,
                    ret |-> search_similar_diseases(index, metadata, model, q, k, f)]
        /\ UNCHANGED <<auth, service, indexing, call>>

IsServiceReady ==
    /\ last = Idle /\ call = NoCall
    /\ last' = [op |-> "is_service_ready",
                ret |-> Return(is_service_ready(index, metadata, model))]
    /\ UNCHANGED <<auth, service, indexing, call>>

GetTreatmentRecommendations ==
    \E m \in EvidenceLists, c \in CropHints, u \in Users,
       o \in (IF llm = PyNone THEN {NoChat} ELSE ChatOutcomes) :
        /\ last = Idle /\ call = NoCall
        /\ \E r \in {get_treatment_recommendations(llm, m, c, u, o)} :
               last' = [op |-> "get_treatment_recommendations", disease_matches |-> m,
                        crop_type |-> c, user_id |-> u, chat |-> o,
                        prompt |-> r.prompt, ret |-> r.ret]
        /\ UNCHANGED <<auth, service, indexing, call>>

Symptoms == {PyNone, PyStr("white mold on the leaves")}

\* a request to /diagnose; inputs that the request's path never reads are not varied
Diagnose ==
    \E c \in CropHints, sy \in Symptoms, u \in Users,
       img \in (IF is_service_ready(index, metadata, model) THEN BOOLEAN ELSE {TRUE}),
       f \in (IF is_service_ready(index, metadata, model) THEN Faults ELSE {"none"}),
       o \in (IF is_service_ready(index, metadata, model) /\ llm # PyNone
              THEN DiagnoseChatOutcomes ELSE {NoChat}) :
        /\ last = Idle /\ call = NoCall
        /\ \E r \in {diagnose_plant_disease(index, metadata, model, llm, img, c, sy, PyNone,
                                           u, f, o)} :
               last' = [op |-> "diagnose_plant_disease", is_image |-> img, crop_type |-> c,
                        symptoms |-> sy, user_id |-> u, fault |-> f, chat |-> o,
                        searched |-> r.searched, prompt |-> r.prompt, ret |-> r.ret]
        /\ UNCHANGED <<auth, service, indexing, call>>

\* the caller takes the outcome of the completed call; the service waits again
Respond ==
    /\ last # Idle
    /\ last' = Idle
    /\ UNCHANGED <<auth, service, indexing, call>>

\* the service as the HTTP layer drives it: retrieval, readiness and /diagnose
Next ==
    \/ Search
    \/ IsServiceReady
    \/ Diagnose
    \/ Respond

Spec == Init /\ [][Next]_vars

\* The synthesizer reads no field of the service but self.llm: its direct calls are
\* explored from the state in which every artifact is loaded.
SynthesizerInit ==
    /\ NoIndexing
    /\ NoOtp
    /\ call = NoCall
    /\ index = FaissIndex([i \in 1..MaxRows |-> CatalogVector(i - 1)], "low")
    /\ index_type = "sbert"
    /\ model = [t |-> "SentenceTransformer"]
    /\ metadata = [i \in 1..MaxRows |-> CatalogRow(i - 1)]
    /\ llm \in {PyNone, [t |-> "HybridLLM"]}
    /\ last = Idle

SynthesizerNext ==
    \/ GetTreatmentRecommendations
    \/ Respond

SynthesizerSpec == SynthesizerInit /\ [][SynthesizerNext]_vars

(***************************************************************************)
(* A run of the indexer script (index.py __main__): build_docs, then       *)
(* save_metadata, then build_faiss; an exception ends the run where it is. *)
(***************************************************************************)
\* rows = build_docs(), on the dataset directory as the run finds it
BuildDocs ==
    \E d \in Datasets :
        /\ indexer.pc \in {"idle", "done", "failed"}
        /\ DATA_DIR' = d
        /\ indexer' = [pc |-> "built", rows |-> build_docs(d), fault |-> "none"]
        /\ UNCHANGED <<auth, service, last, call, META_CSV, FAISS_FILE>>

\* save_metadata(rows)
SaveMetadata ==
    /\ indexer.pc = "built"
    /\ META_CSV' = save_metadata(indexer.rows)
    /\ indexer' = [indexer EXCEPT !.pc = "saved"]
    /\ UNCHANGED <<auth, service, last, call, DATA_DIR, FAISS_FILE>>

\* build_faiss(rows)
BuildFaiss ==
    \E b \in BatchSizes, f \in IndexerFaults :
        /\ indexer.pc = "saved"
        /\ \E r \in {build_faiss(indexer.rows, b, f)} :
               IF r.kind = "return"
               THEN /\ FAISS_FILE' = r.value
                    /\ indexer' = [indexer EXCEPT !.pc = "done", !.fault = f]
               ELSE /\ FAISS_FILE' = FAISS_FILE
                    /\ indexer' = [indexer EXCEPT !.pc = "failed", !.fault = f]
        /\ UNCHANGED <<auth, service, last, call, DATA_DIR, META_CSV>>

\* the service process is not running while the artifacts are built
IndexerInit ==
    /\ DATA_DIR = <<>>
    /\ META_CSV = NoFile
    /\ FAISS_FILE = NoFile
    /\ indexer = [pc |-> "idle", rows |-> <<>>, fault |-> "none"]
    /\ NoOtp
    /\ index = PyNone
    /\ index_type = "unknown"
    /\ model = PyNone
    /\ metadata = <<>>
    /\ llm = PyNone
    /\ call = NoCall
    /\ last = Idle

IndexerNext ==
    \/ BuildDocs
    \/ SaveMetadata
    \/ BuildFaiss

IndexerSpec == IndexerInit /\ [][IndexerNext]_vars

(***************************************************************************)
(* The folder-name parser on its own, and one class folder carried from    *)
(* the indexer's table to a retrieval result.                              *)
(***************************************************************************)
\* parse_class(folder_name)
ParseClass ==
    \E n \in FolderNames :
        /\ last = Idle
        /\ last' = [op |-> "parse_class", folder_name |-> n, ret |-> parse_class(n)]
        /\ UNCHANGED <<auth, service, indexing, call>>

\* build_docs and save_metadata over one class folder with one image, _load_metadata of
\* the table, and the result search_similar_diseases compiles for its row
IndexAndRetrieve ==
    \E n \in FolderNames, f \in {"a.jpg", "B.PNG"} :
        /\ last = Idle
        /\ \E rows \in {build_docs([d \in {n} |-> <<f>>])} :
               last' = [op |-> "retrieve", folder_name |-> n, rows |-> rows,
                        ret |-> CompileResults(load_metadata(save_metadata(rows)),
                                               <<[score |-> 1000, idx |-> 0]>>)]
        /\ UNCHANGED <<auth, service, indexing, call>>

CatalogNext ==
    \/ ParseClass
    \/ IndexAndRetrieve
    \/ Respond

CatalogSpec == IndexerInit /\ [][CatalogNext]_vars

(***************************************************************************)
(* get_treatment_recommendations followed through the generator client:    *)
(* the call waits for the backend between the request and its outcome.     *)
(***************************************************************************)
\* the record of the call c once chat gave result
Completed(c, result) ==
    CHOOSE record \in
        {[op |-> "get_treatment_recommendations", disease_matches |-> c.disease_matches,
          crop_type |-> c.crop_type, user_id |-> c.user_id, chat |-> result,
          prompt |-> r.prompt, ret |-> r.ret] :
            r \in {get_treatment_recommendations(llm, c.disease_matches, c.crop_type, c.user_id,
                                                 result)}} : TRUE

\* a step of the client takes effect; when chat has its result the call returns
Continue(c, step) ==
    /\ llm' = step.llm
    /\ call' = step.call
    /\ last' = IF step.result = PyNone THEN last ELSE Completed(c, step.result)
    /\ UNCHANGED <<auth, index, metadata, model, index_type, indexing>>

\* get_treatment_recommendations(m, None, u): without a generator it returns its fallback
\* at once; with one it builds its prompt and calls self.llm.chat
CallGenerator ==
    \E m \in ChatEvidence, u \in ChatUsers :
        /\ last = Idle /\ call = NoCall
        /\ llm # PyNone => Len(load_history(llm, u).conversation_history) < 2 * MaxExchanges
        /\ \E c \in {[pc |-> "new", attempt |-> 0, disease_matches |-> m, crop_type |-> PyNone,
                      user_id |-> u, request |-> PyNone,
                      message |-> get_treatment_recommendations(llm, m, PyNone, u, NoChat).prompt]} :
               IF llm = PyNone
               THEN Continue(c, [llm |-> llm, call |-> NoCall, result |-> NoChat])
               ELSE \E step \in {start_attempt(llm, [c EXCEPT !.message = c.message.s],
                                               first_model(llm), 1)} : Continue(c, step)

\* generate_content / requests.post returns the backend's answer
GeneratorAnswers ==
    \E a \in ChatAnswers :
        /\ call.pc \in {"gemini", "ollama"}
        /\ \E step \in {after_answer(llm, call, a)} : Continue(call, step)

\* generate_content / requests.post raises: the backend refuses or cannot be reached
GeneratorRaises ==
    /\ call.pc \in {"gemini", "ollama"}
    /\ \E step \in {after_raise(llm, call, "503 Service Unavailable")} : Continue(call, step)

\* requests.post(..., timeout=self.timeout) raises when Ollama has not answered in time;
\* generate_content is called without a timeout
OllamaTimeout ==
    /\ call.pc = "ollama"
    /\ \E step \in {after_raise(llm, call, "Read timed out")} : Continue(call, step)

\* analyze_image_symptoms(image_path)
AnalyzeImageSymptoms ==
    /\ last = Idle /\ call = NoCall
    /\ last' = [op |-> "analyze_image_symptoms", ret |-> Return(PyStr(analyze_image_symptoms))]
    /\ UNCHANGED <<auth, service, indexing, call>>

\* get_service_info()
GetServiceInfo ==
    /\ last = Idle /\ call = NoCall
    /\ last' = [op |-> "get_service_info",
                ret |-> Return(get_service_info(index, metadata, model, index_type, llm))]
    /\ UNCHANGED <<auth, service, indexing, call>>

GeneratorInit ==
    /\ NoIndexing
    /\ NoOtp
    /\ index = FaissIndex([i \in 1..MaxRows |-> CatalogVector(i - 1)], "low")
    /\ index_type = "sbert"
    /\ model = [t |-> "SentenceTransformer"]
    /\ metadata = [i \in 1..MaxRows |-> CatalogRow(i - 1)]
    /\ llm \in {HybridLLM(g, o, r) : g \in BOOLEAN, o \in BOOLEAN, r \in {PyNone, EmptyRedis}}
    /\ call = NoCall
    /\ last = Idle

GeneratorNext ==
    \/ CallGenerator
    \/ GeneratorAnswers
    \/ GeneratorRaises
    \/ OllamaTimeout
    \/ Respond

\* a backend may never answer; the timeout of requests.post is sure to fire
GeneratorSpec == GeneratorInit /\ [][GeneratorNext]_vars /\ WF_vars(OllamaTimeout)

\* Every public operation of the service, in any order, on a service that loaded all of
\* its artifacts or none of them, with or without a generator
ServingInit ==
    /\ NoIndexing
    /\ NoOtp
    /\ \E ix \in LoadedIndexes :
          /\ index = ix.index
          /\ index_type = ix.index_type
          /\ model \in LoadedModels(ix.index_type)
          /\ \/ index = PyNone /\ model = PyNone /\ metadata = <<>>
             \/ /\ index # PyNone /\ model # PyNone
                /\ Len(index.xb) = MaxRows
                /\ metadata = [i \in 1..MaxRows |-> CatalogRow(i - 1)]
    /\ llm \in {PyNone, HybridLLM(TRUE, TRUE, PyNone)}
    /\ call = NoCall
    /\ last = Idle

ServingNext ==
    \/ Search
    \/ AnalyzeImageSymptoms
    \/ IsServiceReady
    \/ GetServiceInfo
    \/ CallGenerator
    \/ GeneratorAnswers
    \/ GeneratorRaises
    \/ OllamaTimeout
    \/ Respond

ServingSpec == ServingInit /\ [][ServingNext]_vars

\* the same calls on the clients without a Redis store
TimeoutInit == GeneratorInit /\ llm.redis_client = PyNone

TimeoutSpec == TimeoutInit /\ [][GeneratorNext]_vars /\ WF_vars(OllamaTimeout)

\* clients of either preference, each backend there or not, without Redis
ChatInit ==
    /\ NoIndexing
    /\ NoOtp
    /\ index = FaissIndex([i \in 1..MaxRows |-> CatalogVector(i - 1)], "low")
    /\ index_type = "sbert"
    /\ model = [t |-> "SentenceTransformer"]
    /\ metadata = [i \in 1..MaxRows |-> CatalogRow(i - 1)]
    /\ llm \in {[HybridLLM(g, o, PyNone) EXCEPT !.prefer_gemini = p] :
                    g \in BOOLEAN, o \in BOOLEAN, p \in BOOLEAN}
    /\ call = NoCall
    /\ last = Idle

ChatSpec == ChatInit /\ [][GeneratorNext]_vars

(***************************************************************************)
(* The OTP service: every await of create_otp and verify_otp is a point    *)
(* where another call may run.                                             *)
(***************************************************************************)
\* what the OTP service leaves alone
serving == <<service, indexing, call, last>>

\* create_otp(phone_number) is called and its delete_many takes effect
CreateOtpDelete ==
    \E p \in Phones :
        /\ Len(requests) < MaxRequests
        /\ otps' = {d \in otps : d.phone_number # p}
        /\ requests' = Append(requests, [op |-> "create_otp", phone_number |-> p, pc |-> "deleted"])
        /\ UNCHANGED <<serving, now>>

\* create_otp draws its code, dates it and its insert_one takes effect
CreateOtpInsert ==
    \E r \in 1..Len(requests), code \in Codes :
        /\ requests[r].op = "create_otp" /\ requests[r].pc = "deleted"
        /\ otps' = otps \cup {OTPVerification(r, requests[r].phone_number, code, now + OTP_EXPIRE_MINUTES)}
        /\ requests' = [requests EXCEPT ![r] = [op |-> "create_otp", phone_number |-> @.phone_number,
                                                 pc |-> "inserted", otp_code |-> code]]
        /\ UNCHANGED <<serving, now>>

\* send_otp is over, whatever became of the SMS, and create_otp returns the otp
CreateOtpReturn ==
    \E r \in 1..Len(requests) :
        /\ requests[r].op = "create_otp" /\ requests[r].pc = "inserted"
        /\ requests' = [requests EXCEPT ![r].pc = "done"]
        /\ UNCHANGED <<serving, otps, now>>

\* verify_otp(phone_number, otp_code) is called and its find_one takes effect: without a
\* document it returns False; issued holds the create_otp calls that had returned by then
VerifyOtpFind ==
    \E p \in Phones, code \in Codes :
        /\ Len(requests) < MaxRequests
        /\ \/ /\ Unverified(otps, p, code) = {}
              /\ requests' = Append(requests, [op |-> "verify_otp", phone_number |-> p, otp_code |-> code,
                                               pc |-> "done", issued |-> Returned(requests), ret |-> FALSE])
           \/ \E otp_data \in Unverified(otps, p, code) :
                  requests' = Append(requests, [op |-> "verify_otp", phone_number |-> p, otp_code |-> code,
                                                pc |-> "found", issued |-> Returned(requests),
                                                otp |-> otp_data])
        /\ UNCHANGED <<serving, otps, now>>

\* verify_otp goes on with the document it found: expired or used up, it deletes the
\* document and returns False; else it marks the document verified and returns True
VerifyOtpDecide ==
    \E r \in 1..Len(requests) :
        /\ requests[r].op = "verify_otp" /\ requests[r].pc = "found"
        /\ LET otp == requests[r].otp
               refused == now > otp.expires_at \/ otp.attempts >= otp.max_attempts
           IN  /\ otps' = IF refused THEN {d \in otps : d.id # otp.id}
                          ELSE {IF d.id = otp.id THEN [d EXCEPT !.is_verified = TRUE] ELSE d : d \in otps}
               /\ requests' = [requests EXCEPT ![r] = [op |-> "verify_otp", phone_number |-> @.phone_number,
                                                        otp_code |-> @.otp_code, pc |-> "done",
                                                        issued |-> @.issued, otp |-> otp,
                                                        ret |-> ~refused]]
        /\ UNCHANGED <<serving, now>>

\* increment_otp_attempts(phone_number, otp_code): update_one on one matching document
IncrementOtpAttempts ==
    \E p \in Phones, code \in Codes :
        /\ Len(requests) < MaxRequests
        /\ LET matching == {d \in otps : d.phone_number = p /\ d.otp_code = code}
           IN  \/ matching = {} /\ otps' = otps
               \/ \E m \in matching : otps' = (otps \ {m}) \cup {[m EXCEPT !.attempts = @ + 1]}
        /\ requests' = Append(requests, [op |-> "increment_otp_attempts", phone_number |-> p,
                                         otp_code |-> code, pc |-> "done"])
        /\ UNCHANGED <<serving, now>>

\* time passes
Tick ==
    /\ now < MaxTime
    /\ now' = now + OTP_EXPIRE_MINUTES
    /\ UNCHANGED <<serving, otps, requests>>

OtpNext ==
    \/ CreateOtpDelete
    \/ CreateOtpInsert
    \/ CreateOtpReturn
    \/ VerifyOtpFind
    \/ VerifyOtpDecide
    \/ IncrementOtpAttempts
    \/ Tick

OtpSpec == IndexerInit /\ [][OtpNext]_vars

(***************************************************************************)
(* Properties of get_treatment_recommendations.                            *)
(***************************************************************************)
IsRecommendation == last.op = "get_treatment_recommendations"

\* chat_outcome is an answer: the call returned success with a response text
IsAnswer(chat_outcome) ==
    /\ chat_outcome.kind = "return"
    /\ "success" \in DOMAIN chat_outcome.value
    /\ chat_outcome.value.success
    /\ "response" \in DOMAIN chat_outcome.value

\* the generator was called and answered
Answered == llm # PyNone /\ IsAnswer(last.chat)

NineFields == {"primary_diagnosis", "confidence", "recommendations", "preventive_measures",
               "fertilizer_advice", "urgency", "similar_cases", "llm_analysis", "model_used"}

SevenFields == NineFields \ {"similar_cases", "model_used"}

\* C1 as claimed: every record returned by get_treatment_recommendations holds all
\* nine Recommendation fields, similar_cases and model_used included.
C1_AllNineFields ==
    IsRecommendation =>
        /\ last.ret.kind = "return"
        /\ NineFields \subseteq DOMAIN last.ret.value

\* C1 amended: every call returns a record that holds primary_diagnosis, confidence,
\* recommendations, preventive_measures, fertilizer_advice, urgency and llm_analysis;
\* similar_cases is there whenever evidence was given; model_used is there whenever
\* evidence was given and the generator answered, and never when it did not answer;
\* with no evidence and no answer the record holds the seven fields only.
C1_FieldsByBranch ==
    IsRecommendation =>
        /\ last.ret.kind = "return"
        /\ SevenFields \subseteq DOMAIN last.ret.value
        /\ (last.disease_matches # <<>> => "similar_cases" \in DOMAIN last.ret.value)
        /\ (last.disease_matches # <<>> /\ Answered => "model_used" \in DOMAIN last.ret.value)
        /\ (~Answered => "model_used" \notin DOMAIN last.ret.value)
        /\ (~Answered /\ last.disease_matches = <<>> => DOMAIN last.ret.value = SevenFields)

\* C1 witness: a call without evidence and without a generator has returned the
\* hard-coded record, which has neither similar_cases nor model_used.
C1_Witness ==
    /\ IsRecommendation
    /\ last.disease_matches = <<>>
    /\ llm = PyNone
    /\ "similar_cases" \notin DOMAIN last.ret.value
    /\ "model_used" \notin DOMAIN last.ret.value

NonEmptyStr(v) == v.t = "str" /\ v.s # ""
NonEmptyList(v) == v.t = "list" /\ Len(v.l) >= 1

\* C2 as claimed: whatever the generator answers, the returned primary_diagnosis,
\* confidence, fertilizer_advice and urgency are non-empty and recommendations and
\* preventive_measures are lists of at least one item.
C2_NonEmptyFields ==
    IsRecommendation =>
        /\ NonEmptyStr(last.ret.value["primary_diagnosis"])
        /\ NonEmptyStr(last.ret.value["confidence"])
        /\ NonEmptyStr(last.ret.value["fertilizer_advice"])
        /\ NonEmptyStr(last.ret.value["urgency"])
        /\ NonEmptyList(last.ret.value["recommendations"])
        /\ NonEmptyList(last.ret.value["preventive_measures"])

\* the deterministic record of an evidence branch: the hard-coded one without
\* evidence, _get_fallback_recommendations with it
BranchFallback(disease_matches, crop_type) ==
    IF disease_matches = <<>> THEN hard_fallback
    ELSE get_fallback_recommendations(StrOr(crop_type, disease_matches[1].crop),
                                      disease_matches[1].condition, disease_matches)

\* C3: when the generator call raises or reports success = false, the call still
\* returns, and what it returns is the deterministic fallback of its evidence branch:
\* the record a service without a generator returns for the same arguments.
C3_FailureGivesFallback ==
    IsRecommendation /\ llm # PyNone /\ ~Answered =>
        /\ last.ret = Return(BranchFallback(last.disease_matches, last.crop_type))
        /\ last.ret = get_treatment_recommendations(PyNone, last.disease_matches,
                                                    last.crop_type, last.user_id, NoChat).ret

\* C3 witness: the generator reported success = false on a call with evidence and
\* the call returned the fallback record.
C3_Witness ==
    /\ IsRecommendation
    /\ llm # PyNone
    /\ last.chat.kind = "return"
    /\ ~last.chat.value.success
    /\ last.disease_matches # <<>>
    /\ last.ret.value["llm_analysis"]
           = PyStr("LLM analysis not available - using fallback recommendations")

UnusableOutcomes == {o \in ChatOutcomes : ~IsAnswer(o)} \cup {NoChat}

\* C4: with evidence and no usable generator the record has primary_diagnosis
\* "<crop> - <condition>" (crop is the hint when one is given, else the crop of the
\* first match; condition is that of the first match), confidence "medium", urgency
\* "medium" and two lists of four items; it depends on the crop hint and the evidence
\* only: any other caller, generator object or generator failure gives the same record.
C4_EvidenceFallback ==
    IsRecommendation /\ last.disease_matches # <<>> /\ ~Answered =>
        LET rec == last.ret.value
            top == last.disease_matches[1]
            crop == IF Truthy(last.crop_type) THEN last.crop_type.s ELSE top.crop
        IN  /\ last.ret.kind = "return"
            /\ rec["primary_diagnosis"] = PyStr(crop \o " - " \o top.condition)
            /\ rec["confidence"] = PyStr("medium")
            /\ rec["urgency"] = PyStr("medium")
            /\ rec["recommendations"].t = "list" /\ Len(rec["recommendations"].l) = 4
            /\ rec["preventive_measures"].t = "list" /\ Len(rec["preventive_measures"].l) = 4
            /\ \A g \in {PyNone, [t |-> "HybridLLM"]}, u \in Users \cup {"u2"}, o \in UnusableOutcomes :
                   get_treatment_recommendations(g, last.disease_matches, last.crop_type, u, o).ret
                       = last.ret

\* C4 witness: a service without a generator was called with evidence and no crop
\* hint and named its diagnosis after the first match.
C4_Witness ==
    /\ IsRecommendation
    /\ llm = PyNone
    /\ Len(last.disease_matches) >= 2
    /\ last.crop_type = PyNone
    /\ last.ret.value["primary_diagnosis"]
           = PyStr(last.disease_matches[1].crop \o " - " \o last.disease_matches[1].condition)

\* C5: with no evidence and no generator the call returns one fixed record, with
\* confidence "low" and urgency "medium", whatever the crop hint.
C5_HardFallback ==
    IsRecommendation /\ last.disease_matches = <<>> /\ llm = PyNone =>
        /\ last.ret.kind = "return"
        /\ last.ret.value["confidence"] = PyStr("low")
        /\ last.ret.value["urgency"] = PyStr("medium")
        /\ last.ret.value["primary_diagnosis"] = PyStr("Unable to identify specific disease")
        /\ \A c \in CropHints, u \in Users \cup {"u2"} :
               get_treatment_recommendations(PyNone, <<>>, c, u, NoChat).ret = last.ret

\* C5 witness: a call with a crop hint, no evidence and no generator has returned.
C5_Witness ==
    /\ IsRecommendation
    /\ last.disease_matches = <<>>
    /\ llm = PyNone
    /\ last.crop_type = PyStr("Pepper")
    /\ last.ret.value["confidence"] = PyStr("low")

Min(a, b) == IF a <= b THEN a ELSE b

\* s is digits "." digit digit, and the number it writes is within half a hundredth
\* of score (score is in thousandths)
IsTwoDecimalsOf(s, score) ==
    LET n == Len(s)
        whole == SubSeq(s, 1, n - 3)
        frac == SubSeq(s, n - 1, n)
        hundredths == 100 * ParseDigits(whole, 1, 0).val.n + ParseDigits(frac, 1, 0).val.n
    IN  /\ n >= 4
        /\ Char(s, n - 2) = "."
        /\ \A i \in (1..n) \ {n - 2} : IsDigit(Char(s, i))
        /\ 10 * hundredths - score \in -5..5

\* C6: with evidence and a generator answer, on the JSON path and on the line path
\* alike, the record has model_used (the answering model) and similar_cases with
\* exactly min(3, n) items, the first matches in evidence order, each with the match's
\* crop and condition and its similarity written with two decimals; a similar_cases
\* or model_used key emitted by the generator is overwritten.
C6_SimilarCasesFromEvidence ==
    IsRecommendation /\ last.disease_matches # <<>> /\ Answered =>
        LET rec == last.ret.value
            n == Len(last.disease_matches)
        IN  /\ rec["model_used"] = PyStr(Get(last.chat.value, "model", "unknown"))
            /\ rec["similar_cases"].t = "list"
            /\ Len(rec["similar_cases"].l) = Min(3, n)
            /\ \A i \in 1..Min(3, n) :
                   LET case == rec["similar_cases"].l[i].d
                   IN  /\ DOMAIN case = {"crop", "condition", "similarity"}
                       /\ case["crop"] = PyStr(last.disease_matches[i].crop)
                       /\ case["condition"] = PyStr(last.disease_matches[i].condition)
                       /\ case["similarity"].t = "str"
                       /\ IsTwoDecimalsOf(case["similarity"].s, last.disease_matches[i].score)

\* C6 witness: the generator answered a call with four matches with a JSON object
\* that carries its own similar_cases, and the record lists three cases.
C6_Witness ==
    /\ IsRecommendation
    /\ Answered
    /\ Len(last.disease_matches) = 4
    /\ last.chat.value.response = EmbeddedInProse
    /\ Len(last.ret.value["similar_cases"].l) = 3

AssertsConfidence(prompt, level) == Contains(prompt.s, "\"confidence\": \"" \o level \o "\"")

\* C7 as claimed: whenever evidence is present and a prompt is sent, the prompt
\* asserts confidence "high" exactly when the first match scores above 0.7 and
\* "medium" otherwise, for the healthy prompt and for the treatment prompt.
C7_ThresholdInBothPrompts ==
    IsRecommendation /\ last.disease_matches # <<>> /\ last.prompt # PyNone =>
        /\ AssertsConfidence(last.prompt, "high") <=> last.disease_matches[1].score > 700
        /\ AssertsConfidence(last.prompt, "medium") <=> last.disease_matches[1].score <= 700

\* C7 amended: the treatment prompt (first match not healthy) asserts "high" exactly
\* when the first match scores above 0.7 and "medium" otherwise, 0.7 itself included;
\* the healthy prompt (first match healthy) asserts "high" whatever the score.
C7_ThresholdInTreatmentPrompt ==
    IsRecommendation /\ last.disease_matches # <<>> /\ last.prompt # PyNone =>
        IF last.disease_matches[1].is_healthy
        THEN /\ AssertsConfidence(last.prompt, "high")
             /\ ~AssertsConfidence(last.prompt, "medium")
             /\ Contains(last.prompt.s, "with high confidence")
        ELSE /\ AssertsConfidence(last.prompt, "high") <=> last.disease_matches[1].score > 700
             /\ AssertsConfidence(last.prompt, "medium") <=> last.disease_matches[1].score <= 700
             /\ Contains(last.prompt.s, "Confidence level: "
                    \o (IF last.disease_matches[1].score > 700 THEN "high" ELSE "medium"))

\* C7 witness: a healthy first match scoring 0.7 was put to the generator with
\* confidence "high".
C7_Witness ==
    /\ IsRecommendation
    /\ last.prompt # PyNone
    /\ last.disease_matches # <<>>
    /\ last.disease_matches[1].is_healthy
    /\ last.disease_matches[1].score <= 700
    /\ AssertsConfidence(last.prompt, "high")

(***************************************************************************)
(* Properties of readiness, retrieval and the /diagnose request.           *)
(***************************************************************************)
\* C8 as claimed: is_service_ready() is true exactly when the index, the metadata and
\* the embedding backend are loaded and the metadata has as many rows as the index
\* has vectors.
C8_ReadyIffLoadedAndAligned ==
    last.op = "is_service_ready" =>
        (last.ret.value <=> /\ index # PyNone
                            /\ model # PyNone
                            /\ metadata # <<>>
                            /\ Len(metadata) = Len(index.xb))

IsDiagnosis == last.op = "diagnose_plant_disease"

Ready == is_service_ready(index, metadata, model)

C10_SearchNeverRaises ==
    last.op = "search_similar_diseases" =>
        /\ last.ret.kind = "return"
        /\ (index = PyNone \/ metadata = <<>> \/ model = PyNone \/ last.fault # "none")
               => last.ret.value = <<>>
        /\ ~Ready => Len(last.ret.value) = 0

\* C10 witness: on a fully loaded service the index search threw and the call
\* returned the empty list.
C10_Witness ==
    /\ last.op = "search_similar_diseases"
    /\ Ready
    /\ Len(metadata) = Len(index.xb)
    /\ last.top_k >= 1
    /\ last.fault = "search"
    /\ last.ret = Return(<<>>)

\* C11: for every query and every top_k >= 1, search_similar_diseases returns at
\* most top_k results.
C11_AtMostTopK ==
    last.op = "search_similar_diseases" /\ last.top_k >= 1 =>
        /\ last.ret.kind = "return"
        /\ Len(last.ret.value) <= last.top_k

\* C11 witness: an index of three rows was asked for two results and two came back.
C11_Witness ==
    /\ last.op = "search_similar_diseases"
    /\ Ready
    /\ Len(index.xb) = 3
    /\ Len(metadata) = 3
    /\ last.top_k = 2
    /\ Len(last.ret.value) = 2

\* C12 as claimed: the results of search_similar_diseases are in descending order of
\* score, and results of equal score are in ascending order of their index row.
C12_DescendingThenRowOrder ==
    last.op = "search_similar_diseases" =>
        \A i \in 1..(Len(last.ret.value) - 1) :
            \/ last.ret.value[i].score > last.ret.value[i + 1].score
            \/ /\ last.ret.value[i].score = last.ret.value[i + 1].score
               /\ last.ret.value[i].metadata_id <= last.ret.value[i + 1].metadata_id

\* C13 as claimed: after any run of the indexer the metadata table and the vector index hold the same
\* number of rows, row i of the table has id i, and vector i is the embedding of row i's text.
C13_ArtifactsAligned == indexer.pc \in {"done", "failed"} =>
    /\ META_CSV # NoFile /\ FAISS_FILE # NoFile
    /\ Len(META_CSV.content) = Len(FAISS_FILE.content)
    /\ \A i \in 1..Len(META_CSV.content) :
           /\ META_CSV.content[i].id = NatToStr(i - 1)
           /\ FAISS_FILE.content[i] = encode(META_CSV.content[i].text)

\* the same alignment after the runs that reach their end
C13_CompletedRunsAligned == indexer.pc = "done" =>
    /\ META_CSV # NoFile /\ FAISS_FILE # NoFile
    /\ Len(META_CSV.content) = Len(FAISS_FILE.content)
    /\ \A i \in 1..Len(META_CSV.content) :
           /\ META_CSV.content[i].id = NatToStr(i - 1)
           /\ FAISS_FILE.content[i] = encode(META_CSV.content[i].text)

\* C15: no sequence of search, recommendation, symptom-analysis, readiness and service-info calls
\* changes the loaded index, the metadata table, the index type or the embedding model.
C15_ArtifactsNeverChange ==
    [][index' = index /\ metadata' = metadata /\ index_type' = index_type /\ model' = model]_vars

\* after two answered recommendation calls get_service_info still reports every artifact
\* of the tfidf service
C15_Witness ==
    /\ last.op = "get_service_info" /\ last.ret.value.ready
    /\ last.ret.value.metadata_count = MaxRows /\ last.ret.value.index_type = "tfidf"
    /\ llm # PyNone /\ Len(llm.conversation_history) = 2 * MaxExchanges

\* C14 as claimed: what a call of get_treatment_recommendations sends to the generator depends only
\* on that call's arguments: the system prompt and the call's own prompt, with no message or answer
\* of an earlier call carried along and sent again.
C14_NoEarlierCallInRequest ==
    /\ call.pc = "gemini" =>
           call.request = PyStr("System: " \o agricultural_prompt \o "\n\nHuman: " \o call.message
                                \o "\n\nAssistant:")
    /\ call.pc = "ollama" =>
           call.request = PyList(<<[role |-> "system", content |-> agricultural_prompt],
                                   [role |-> "user", content |-> call.message]>>)

\* C16 as claimed: every call of get_treatment_recommendations returns in the end, whichever backend
\* (Gemini or Ollama) its generator call is waiting for.
C16_EveryCallReturns == (call.pc # "idle") ~> (call.pc = "idle")

\* the calls that wait for Ollama do return: the request carries the timeout
C16_OllamaCallsReturn == (call.pc = "ollama") ~> (call.pc = "idle")

\* a list of strings holding between lo and hi items
IsStrListOf(v, lo, hi) ==
    /\ v.t = "list"
    /\ Len(v.l) >= lo /\ Len(v.l) <= hi
    /\ \A i \in 1..Len(v.l) : v.l[i].t = "str"

\* C17 as claimed: in every record returned by get_treatment_recommendations, recommendations and
\* preventive_measures are lists of strings of between 3 and 6 items.
C17_ListsOfThreeToSix ==
    IsRecommendation =>
        /\ IsStrListOf(last.ret.value["recommendations"], 3, 6)
        /\ IsStrListOf(last.ret.value["preventive_measures"], 3, 6)

\* the records of the calls the generator did not answer with evidence given: four items each
C17_EvidenceFallbackLists ==
    IsRecommendation /\ ~Answered /\ last.disease_matches # <<>> =>
        /\ IsStrListOf(last.ret.value["recommendations"], 4, 4)
        /\ IsStrListOf(last.ret.value["preventive_measures"], 4, 4)

(***************************************************************************)
(* Properties of _parse_llm_recommendations, through the calls whose       *)
(* generator answered with a text of Responses.                            *)
(***************************************************************************)
\* the answer text of the last call
AnswerText == last.chat.value.response

\* the texts without a {...} block, and those whose block json.loads rejects
LinePathTexts ==
    {t \in Responses : json_match(t) = PyNone \/ json_loads(json_match(t).s).kind = "raise"}

\* the object json.loads yields for each of the other texts
StructuredObjects ==
    {[text |-> t, obj |-> json_loads(json_match(t).s).value.d] : t \in Responses \ LinePathTexts}

StructuredObject(text) == (CHOOSE p \in StructuredObjects : p.text = text).obj

\* the fields of the parser's record that reach the caller as the parser left them: with
\* evidence, get_treatment_recommendations sets similar_cases and model_used itself
FromParser(obj) ==
    DOMAIN obj \ (IF last.disease_matches = <<>> THEN {} ELSE {"similar_cases", "model_used"})

\* C18: _parse_llm_recommendations returns a record for every response text and never raises; when
\* the text has no {...} block or its block fails structured parsing, the record is the line-based
\* one: primary_diagnosis "AI analysis completed", confidence "medium", llm_analysis the raw text.
C18_TotalAndTwoTiered ==
    IsRecommendation /\ Answered =>
        /\ last.ret.kind = "return"
        /\ SevenFields \subseteq DOMAIN last.ret.value
        /\ AnswerText \in LinePathTexts =>
               /\ last.ret.value["primary_diagnosis"] = PyStr("AI analysis completed")
               /\ last.ret.value["confidence"] = PyStr("medium")
               /\ last.ret.value["llm_analysis"] = PyStr(AnswerText)

\* the generator answered prose with bullets, which ends in a newline, and the record came
\* from the line-based path
C18_Witness ==
    /\ IsRecommendation /\ Answered
    /\ AnswerText = ProseWithBullets
    /\ last.ret.value["primary_diagnosis"] = PyStr("AI analysis completed")
    /\ last.ret.value["llm_analysis"] = PyStr(ProseWithBullets)

\* the texts in which a JSON object starts at the first "{" and later text holds a further
\* brace, each paired with that first object as a JSON parser reads it from there
FirstObjects ==
    {p \in {<<x, ParseValue(x, Find(x, "{"))>> : x \in {y \in Responses : Contains(y, "{")}} :
        /\ p[2].ok
        /\ \E j \in p[2].next..Len(p[1]) : Char(p[1], j) \in {"{", "}"}}

\* C19 as claimed: when the response text holds a valid JSON object followed by later text with
\* further braces, the first balanced {...} block is the one parsed and its fields are returned.
C19_FirstBalancedBlockParsed ==
    IsRecommendation /\ Answered =>
        \A p \in FirstObjects :
            p[1] = AnswerText => \A k \in FromParser(p[2].val.d) : last.ret.value[k] = p[2].val.d[k]

\* C20 as claimed: on the structured path a missing primary_diagnosis, confidence or
\* fertilizer_advice becomes the placeholder string, a missing recommendations or
\* preventive_measures becomes a one-element list holding the placeholder, a missing urgency
\* becomes "medium", a missing llm_analysis the raw text, and present fields are unchanged.
C20_StructuredDefaults ==
    IsRecommendation /\ Answered /\ AnswerText \in Responses \ LinePathTexts =>
        /\ \A k \in {"primary_diagnosis", "confidence", "fertilizer_advice"} \ DOMAIN StructuredObject(AnswerText) :
               last.ret.value[k] = PyStr("Not specified in LLM response")
        /\ \A k \in {"recommendations", "preventive_measures"} \ DOMAIN StructuredObject(AnswerText) :
               last.ret.value[k] = PyList(<<PyStr("Not specified in LLM response")>>)
        /\ "urgency" \notin DOMAIN StructuredObject(AnswerText) => last.ret.value["urgency"] = PyStr("medium")
        /\ "llm_analysis" \notin DOMAIN StructuredObject(AnswerText) =>
               last.ret.value["llm_analysis"] = PyStr(AnswerText)
        /\ \A k \in FromParser(StructuredObject(AnswerText)) : last.ret.value[k] = StructuredObject(AnswerText)[k]

\* the same defaults with the placeholder string for the list fields too
C20_StructuredDefaultsAsStrings ==
    IsRecommendation /\ Answered /\ AnswerText \in Responses \ LinePathTexts =>
        /\ \A k \in {"primary_diagnosis", "confidence", "fertilizer_advice", "recommendations",
                      "preventive_measures"} \ DOMAIN StructuredObject(AnswerText) :
               last.ret.value[k] = PyStr("Not specified in LLM response")
        /\ "urgency" \notin DOMAIN StructuredObject(AnswerText) => last.ret.value["urgency"] = PyStr("medium")
        /\ "llm_analysis" \notin DOMAIN StructuredObject(AnswerText) =>
               last.ret.value["llm_analysis"] = PyStr(AnswerText)
        /\ \A k \in FromParser(StructuredObject(AnswerText)) : last.ret.value[k] = StructuredObject(AnswerText)[k]

(***************************************************************************)
(* The line-based path of the parser.                                      *)
(***************************************************************************)
LineBased == IsRecommendation /\ Answered /\ AnswerText \in LinePathTexts

\* the lines the loop acts on: stripped, blank ones dropped
AnswerLines ==
    LET ls == Split(AnswerText, "\n")
    IN  SelectSeq([i \in 1..Len(ls) |-> Strip(ls[i])], LAMBDA l : l # "")

\* the local variables of the loop before its first line
ScanStart ==
    [recommendations     |-> <<>>,
     preventive_measures |-> <<>>,
     fertilizer_advice   |-> "Apply balanced fertilizer as recommended",
     urgency             |-> "medium",
     current_section     |-> "None"]

\* the local variables of the loop once the first n lines are read
ScanAfter(lines, n) == ScanLines(SubSeq(lines, 1, n), ScanStart)

IsBulleted(line) == StartsWith(line, "-") \/ StartsWith(line, Bullet) \/ StartsWith(line, "*")

Unbulleted(line) == Strip(LStripSet(line, {"-", " ", Bullet, "*"}))

RECURSIVE BulletsUnder(_, _, _)
\* the bulleted lines from line i on that are read while the section is the active one,
\* each without its bullet
BulletsUnder(lines, section, i) ==
    IF i > Len(lines) THEN <<>>
    ELSE (IF IsBulleted(lines[i]) /\ ScanAfter(lines, i - 1).current_section = section
          THEN <<PyStr(Unbulleted(lines[i]))>> ELSE <<>>)
         \o BulletsUnder(lines, section, i + 1)

\* C21: in the line-based path every bulleted line read while recommendations or
\* preventive_measures is the active section is appended, without its bullet and in input
\* order, to that section's list, whatever words it contains; the returned list is the first
\* six of them.
C21_BulletsAppended ==
    LineBased =>
        \A section \in {"recommendations", "preventive_measures"} :
            LET bullets == BulletsUnder(AnswerLines, section, 1)
            IN  bullets # <<>> => last.ret.value[section] = PyList(Take(bullets, MaxListItems))

\* C22: in the line-based path a line containing "fertilizer", "nutrient" or "npk" becomes
\* fertilizer_advice as it stands and leaves no section active, and a line containing "urgent",
\* "immediate" or "critical" sets urgency to "high" and leaves no section active, so that the
\* bullets after it go to no list until a line opens a section again.
C22_AdviceAndUrgencyLines ==
    LineBased =>
        \A i \in 1..Len(AnswerLines) :
            LET line == AnswerLines[i]
                st   == ScanAfter(AnswerLines, i)
            IN  /\ AnyKeyword(line, {"fertilizer", "nutrient", "npk"}) =>
                       st.fertilizer_advice = line /\ st.current_section = "None"
                /\ AnyKeyword(line, {"urgent", "immediate", "critical"}) =>
                       st.urgency = "high" /\ st.current_section = "None"

\* C23 as stated: in the line-based path a list for which no bullet was captured holds
\* exactly one placeholder sentence.
C23_OnePlaceholderEach ==
    LineBased =>
        \A section \in {"recommendations", "preventive_measures"} :
            ScanAfter(AnswerLines, Len(AnswerLines))[section] = <<>> =>
                /\ IsStrListField(last.ret.value[section])
                /\ Len(last.ret.value[section].l) = 1

\* C23: in the line-based path a recommendations list for which no bullet was captured holds
\* the one sentence "Follow agricultural best practices for the identified condition", and a
\* preventive_measures list for which none was captured holds the two sentences "Maintain
\* good plant hygiene" and "Monitor plants regularly".
C23_PlaceholdersWhenNoBullets ==
    LineBased =>
        LET st == ScanAfter(AnswerLines, Len(AnswerLines))
        IN  /\ st.recommendations = <<>> =>
                   last.ret.value["recommendations"] =
                       PyList(<<PyStr("Follow agricultural best practices for the identified condition")>>)
            /\ st.preventive_measures = <<>> =>
                   last.ret.value["preventive_measures"] =
                       PyList(<<PyStr("Maintain good plant hygiene"), PyStr("Monitor plants regularly")>>)

\* the answer had bullets under a recommendations header and none for preventive measures
C23_Witness ==
    /\ LineBased
    /\ AnswerText = DotBullets
    /\ Len(last.ret.value["recommendations"].l) = 3
    /\ Len(last.ret.value["preventive_measures"].l) = 2

(***************************************************************************)
(* The folder-name parser.                                                 *)
(***************************************************************************)
IsParse == last.op = "parse_class"

\* the name parse_class works on: folder_name.strip().rstrip('_')
TrimmedName == RStripSet(Strip(last.folder_name), {"_"})

\* C24: parse_class tries its six rules in the order triple underscore, banana prefix,
\* sugarcane prefix, good/ill prefix, single underscore, disease-only lookup, and the first rule
\* whose condition holds of the name decides crop and condition by itself; a name with '___'
\* and a banana or good/ill prefix is split on '___'.
C24_FirstMatchDecides ==
    IsParse =>
        LET name == TrimmedName
            nlow == Lower(name)
            crop == last.ret.crop
            condition == last.ret.condition
        IN  IF Contains(name, "___")
            THEN /\ crop = _canon_crop(_canon_crop(_norm(SubSeq(name, 1, Find(name, "___") - 1))))
                 /\ condition = _norm(From(name, Find(name, "___") + 3))
            ELSE IF IsBanana(nlow)
            THEN /\ crop = "Banana"
                 /\ condition \in {"unknown", _norm(From(name, Find(nlow, "banana") + 7))}
            ELSE IF StartsWith(nlow, "sugarcane")
            THEN /\ crop = "Sugarcane"
                 /\ condition \in {"unknown", _norm(StripLeaf(From(name, 10)))}
            ELSE IF IsGoodIll(nlow)
            THEN /\ condition \in {"healthy", "diseased"}
                 /\ GoodIllMatch(name) # PyNone =>
                        /\ condition = "healthy" <=> StartsWith(nlow, "good")
                        /\ crop = _canon_crop(_canon_crop(_norm(GoodIllMatch(name).g2)))
            ELSE IF Contains(name, "_")
            THEN /\ crop = _canon_crop(_canon_crop(_norm(SubSeq(name, 1, Find(name, "_") - 1))))
                 /\ condition = _norm(From(name, Find(name, "_") + 1))
            ELSE /\ condition = _norm(name)
                 /\ crop = _canon_crop(Lookup(DISEASE_DEFAULT_CROP, Lower(condition), "Unknown"))

\* a name with both '___' and a banana prefix was split on '___'
C24_Witness ==
    /\ IsParse
    /\ last.folder_name = "resized_banana___Leaf_Rust"
    /\ last.ret.crop = "resized banana"
    /\ last.ret.condition = "Leaf Rust"

\* C25: the alias table canonicalizes the crop of parse_class's result: a folder whose crop
\* part is "Pepper,_bell" yields crop "Bell pepper", and one whose crop part is "Corn_(maize)"
\* yields crop "Corn".
C25_AliasesCanonicalize ==
    IsParse =>
        /\ StartsWith(last.folder_name, "Pepper,_bell___") => last.ret.crop = "Bell pepper"
        /\ StartsWith(last.folder_name, "Corn_(maize)___") => last.ret.crop = "Corn"

\* C26: parse_class returns is_healthy true exactly when its condition, lower-cased, is
\* "healthy", "leaf healthy" or "good", and the is_healthy of a retrieval result is the value
\* parse_class computed for the row's folder.
C26_HealthyFlagKept ==
    /\ IsParse =>
           (last.ret.is_healthy <=> Lower(last.ret.condition) \in {"healthy", "leaf healthy", "good"})
    /\ last.op = "retrieve" =>
           /\ Len(last.ret) = Len(last.rows)
           /\ \A i \in 1..Len(last.ret) :
                  /\ last.ret[i].is_healthy = last.rows[i].is_healthy
                  /\ last.ret[i].is_healthy = parse_class(last.folder_name).is_healthy

\* a folder whose condition is "Leaf Healthy" came back from retrieval as healthy
C26_Witness ==
    /\ last.op = "retrieve"
    /\ last.folder_name = "Sugarcane_Leaf_Healthy"
    /\ Len(last.ret) = 1
    /\ last.ret[1].is_healthy

\* C27: when encoding one image fails during an indexer run, only that image is skipped: the
\* run goes on to its end and leaves a metadata table and a vector index with the same number of
\* rows, row i of the table matching vector i, and the skipped image in neither.
C27_ImageFaultSkipsOneImage ==
    indexer.pc \in {"done", "failed"} /\ indexer.fault = "encode" /\ indexer.rows # <<>> =>
        /\ indexer.pc = "done"
        /\ META_CSV # NoFile /\ FAISS_FILE # NoFile
        /\ Len(META_CSV.content) = Len(FAISS_FILE.content)
        /\ Len(META_CSV.content) < Len(indexer.rows)
        /\ \A i \in 1..Len(META_CSV.content) :
               FAISS_FILE.content[i] = encode(META_CSV.content[i].text)

\* C28: every result of search_similar_diseases is built from the metadata row of a neighbour
\* the index search really returned, 0 <= idx < len(metadata): when the index holds fewer than
\* top_k vectors, the padding slots (row -1) give no result, there are at most as many results
\* as the index has vectors, and no metadata row appears twice.
C28_ResultsAreRealNeighbours ==
    last.op = "search_similar_diseases" /\ last.ret.kind = "return" /\ last.ret.value # <<>> =>
        LET results == last.ret.value
        IN  /\ \A i \in 1..Len(results) :
                   results[i].metadata_id >= 0 /\ results[i].metadata_id < Len(metadata)
            /\ Len(results) <= Len(index.xb)
            /\ \A i, j \in 1..Len(results) :
                   i # j => PyIndex(metadata, results[i].metadata_id) # PyIndex(metadata, results[j].metadata_id)

(***************************************************************************)
(* HybridLLM.chat and its fallback wrapper.                                *)
(***************************************************************************)
\* the backend a client prefers
Preferred == IF llm.prefer_gemini THEN "gemini" ELSE "ollama"

\* C29: chat never raises to its caller; its first attempt goes to the preferred backend when
\* that one is available, a second attempt is made only after the first raised and only on a
\* backend that is available; the result has success false and model "none" exactly when no
\* attempt got an answer, and a result with success true names the backend that answered.
C29_ChatNeverRaises ==
    [][/\ (last' # last /\ last' # Idle) =>
              /\ last'.chat.kind = "return"
              /\ last'.chat.value.success <=> llm'.conversation_history # llm.conversation_history
              /\ last'.chat.value.success =>
                     /\ call.pc \in {"gemini", "ollama"}
                     /\ last'.chat.value.model =
                            (IF call.pc = "gemini" THEN "gemini-2.0-flash" ELSE "ollama-llama3:8b")
              /\ ~last'.chat.value.success => last'.chat.value.model = "none"
       /\ (call' # call /\ call'.pc \in {"gemini", "ollama"}) =>
              /\ model_available(llm, call'.pc)
              /\ call'.attempt = 1 =>
                     /\ call = NoCall
                     /\ model_available(llm, Preferred) => call'.pc = Preferred
              /\ call'.attempt = 2 => call.pc \in {"gemini", "ollama"} /\ call.attempt = 1
      ]_vars

\* both backends were there, Ollama was preferred, and both raised: the caller got the
\* failure record
C29_Witness ==
    /\ IsRecommendation
    /\ llm # PyNone /\ ~llm.prefer_gemini /\ llm.gemini_available /\ llm.ollama_available
    /\ last.chat.kind = "return"
    /\ ~last.chat.value.success
    /\ last.chat.value.model = "none"

(***************************************************************************)
(* The OTP service.                                                        *)
(***************************************************************************)
\* C30: once a create_otp(phone) call has returned, at most one OTP document exists for that
\* phone number, and verify_otp accepts no code that an earlier create_otp call issued for the
\* phone, in every order and interleaving of the calls on the phone.
C30_OnlyLatestOtp ==
    /\ \A r \in Returned(requests) :
           Cardinality({d \in otps : d.phone_number = requests[r].phone_number}) <= 1
    /\ \A v \in 1..Len(requests) :
           (requests[v].op = "verify_otp" /\ requests[v].pc = "done" /\ requests[v].ret) =>
               ~\E later \in requests[v].issued :
                     /\ later > requests[v].otp.id
                     /\ requests[later].phone_number = requests[v].phone_number

====
